---- MODULE Spec2Model ----
(***************************************************************************)
(* Alert decision core of the Crypto Gem Finder (src/main.py): the         *)
(* AlertOptimizer (rate limiter, quality filter, cooldown store,           *)
(* counters), and the monitoring loop that drives it.                      *)
(*                                                                         *)
(* Time is in whole seconds.  A synchronous, in-memory method of the       *)
(* optimizer reads the clock once per call; time passes between calls,     *)
(* during the blocking dispatch and during the sleeps of the loop.         *)
(***************************************************************************)
EXTENDS Integers, Sequences, FiniteSets, TLC

VARIABLES
    now,              \* time.time(), in seconds
    alert_optimizer,  \* the AlertOptimizer instance of main.py
    call,             \* the last operation performed, its arguments and result
    evaluated,        \* per key, the best outcome of the evaluations made
                      \* since the last commit for the key (history variable)
    committed,        \* per key, the time and priority of the last commit
                      \* (history variable)
    monitoring_active,  \* the global flag of main.py
    telegram_configured,\* TELEGRAM_BOT_TOKEN and TELEGRAM_CHAT_ID are set
    whale_tracker,    \* a whale tracker was created at import
    pc,               \* where the monitoring task stands
    coin_idx,         \* the coin of TRACKED_COINS being checked
    cycle,            \* scan cycles begun
    starts,           \* monitoring tasks created
    last_cleanup,     \* local of monitoring_loop
    pending,          \* the approved alert check_and_alert is dispatching
    whale_txs,        \* whale transactions of the cycle not yet notified
    delivered,        \* per key, the time and priority of the last alert the
                      \* dispatcher confirmed (history variable)
    undelivered,      \* keys whose last dispatch failed (history variable)
    telegram_log,     \* the last notifications the dispatcher confirmed:
                      \* time, and whether the optimizer approved and
                      \* recorded it (history variable)
    alert_history,    \* the global list of main.py: the alerts sent, in order
    cancelled_tasks,  \* the awaits at which the tasks stand that were
                      \* cancelled and have not run since, oldest first
    crypto_monitor,   \* the CryptoMonitor instance of crypto_monitor.py
    ao_optimizer      \* an AlertOptimizer of alert_optimizer.py that is given
                      \* the calls alert_optimizer is given

optimizer_vars == <<now, alert_optimizer, call, evaluated, committed>>

loop_vars == <<monitoring_active, telegram_configured, whale_tracker, pc,
               coin_idx, cycle, starts, last_cleanup, pending, whale_txs,
               delivered, undelivered, telegram_log>>

aux_vars == <<alert_history, cancelled_tasks, crypto_monitor, ao_optimizer>>

loop_vars_but_pc == <<monitoring_active, telegram_configured, whale_tracker,
                      coin_idx, cycle, starts, last_cleanup, pending,
                      whale_txs, delivered, undelivered, telegram_log>>

vars == <<optimizer_vars, loop_vars, aux_vars>>

----------------------------------------------------------------------------
(* Bounds of the exploration *)

MaxChecks  == 2       \* should_send_alert calls between two resets of the counters
MaxBurst   == 5       \* record_alert calls of a burst (short horizon)
MaxCommits == 2       \* record_alert calls over the long horizon
MaxCycles  == 2       \* scan cycles of the monitoring loop
MaxWhales  == 1       \* whale transactions found in one cycle
MaxStarts  == 2       \* monitoring tasks created
MaxTrace   == 4       \* should_send_alert calls of a followed alert
MaxRate    == 7       \* check_and_alert calls that reach the optimizer in a burst

----------------------------------------------------------------------------
(* Enumerations and configuration *)

AlertPriority == {"HIGH", "MEDIUM", "LOW"}

AlertType == {"STRONG_BUY", "WHALE", "PUMP", "VOLUME_SPIKE", "PRICE_DROP"}

None == "None"

TRACKED_COINS == <<"bitcoin", "ethereum", "binancecoin", "cardano", "solana">>

cooldown_config ==
    [p \in AlertPriority |->
        CASE p = "HIGH"   -> 1800
          [] p = "MEDIUM" -> 3600
          [] p = "LOW"    -> 7200]

min_volume_24h == 1000000

min_market_cap == 10000000

max_alerts_per_minute == 5

RateWindowSeconds == 60

----------------------------------------------------------------------------
(* Python helpers *)

\* dict.get(key, default)
Get(d, k, default) == IF k \in DOMAIN d THEN d[k] ELSE default

\* d[key] = value on a dict
DictSet(d, k, v) == [x \in DOMAIN d \cup {k} |-> IF x = k THEN v ELSE d[x]]

EmptyDict == [x \in {} |-> 0]

\* the text of a reason: a fixed part and the numbers formatted into it
Reason(text, args) == [text |-> text, args |-> args]

NoReason == Reason("", <<>>)

\* f"{remaining/60:.1f}": the minutes, in tenths, rounded to the nearest
\* tenth (ties to even)
\* variant: the tenths are cut off instead of rounded
FormatMinutes_truncated(remaining) == remaining \div 6

FormatMinutes(remaining) ==
    LET q == remaining \div 6
        r == remaining % 6
    IN  IF r < 3 THEN q
        ELSE IF r > 3 THEN q + 1
        ELSE IF q % 2 = 0 THEN q ELSE q + 1

----------------------------------------------------------------------------
(* class AlertOptimizer *)

AlertRecord(coin_id, alert_type, timestamp, price, priority) ==
    [coin_id |-> coin_id, alert_type |-> alert_type, timestamp |-> timestamp,
     price |-> price, priority |-> priority]

ZeroStats ==
    [total_checks |-> 0, alerts_sent |-> 0, alerts_blocked_cooldown |-> 0,
     alerts_blocked_filters |-> 0, alerts_blocked_rate_limit |-> 0]

\* AlertOptimizer.__init__
NewAlertOptimizer ==
    [alert_history |-> EmptyDict, alerts_sent_minute |-> <<>>, stats |-> ZeroStats]

\* variant: a key made of the coin id alone
AlertKey_coin_only(coin_id, alert_type) == coin_id

\* f"{coin_id}_{alert_type.value}"
AlertKey(coin_id, alert_type) == coin_id \o "_" \o alert_type

\* the methods take the instance and the clock reading and give the instance
\* after the call and the value returned

\* variant: the window is half as long
_check_rate_limit_short_window(self, t) ==
    LET kept == SelectSeq(self.alerts_sent_minute,
                          LAMBDA x : 2 * (t - x) < RateWindowSeconds)
    IN  [self |-> [self EXCEPT !.alerts_sent_minute = kept],
         ret  |-> Len(kept) < max_alerts_per_minute]

\* variant: the limit itself is still admitted
_check_rate_limit_inclusive(self, t) ==
    LET kept == SelectSeq(self.alerts_sent_minute,
                          LAMBDA x : t - x < RateWindowSeconds)
    IN  [self |-> [self EXCEPT !.alerts_sent_minute = kept],
         ret  |-> Len(kept) <= max_alerts_per_minute]

\* variant: the comparison of the pruning is inverted
_check_rate_limit_inverted(self, t) ==
    LET kept == SelectSeq(self.alerts_sent_minute,
                          LAMBDA x : t - x > RateWindowSeconds)
    IN  [self |-> [self EXCEPT !.alerts_sent_minute = kept],
         ret  |-> Len(kept) < max_alerts_per_minute]

_check_rate_limit(self, t) ==
    LET kept == SelectSeq(self.alerts_sent_minute,
                          LAMBDA x : t - x < RateWindowSeconds)
    IN  [self |-> [self EXCEPT !.alerts_sent_minute = kept],
         ret  |-> Len(kept) < max_alerts_per_minute]

\* variant: the timestamp is added twice
_track_rate_limit_twice(self, t) ==
    [self EXCEPT !.alerts_sent_minute = Append(Append(@, t), t)]

\* variant: the window is pruned when a timestamp is added
_track_rate_limit_pruning(self, t) ==
    [self EXCEPT !.alerts_sent_minute =
        Append(SelectSeq(@, LAMBDA x : t - x < RateWindowSeconds), t)]

_track_rate_limit(self, t) ==
    [self EXCEPT !.alerts_sent_minute = Append(@, t)]

\* variant: a volume exactly at the minimum is refused
_check_filters_strict(crypto_data) ==
    IF Get(crypto_data, "volume24h", 0) <= min_volume_24h
    THEN <<FALSE, Reason("Volume basso", <<>>)>>
    ELSE IF Get(crypto_data, "marketCap", 0) < min_market_cap
    THEN <<FALSE, Reason("Market cap basso", <<>>)>>
    ELSE IF Get(crypto_data, "price", 0) <= 0
    THEN <<FALSE, Reason("Prezzo non valido", <<>>)>>
    ELSE <<TRUE, NoReason>>

_check_filters(crypto_data) ==
    IF Get(crypto_data, "volume24h", 0) < min_volume_24h
    THEN <<FALSE, Reason("Volume basso", <<>>)>>
    ELSE IF Get(crypto_data, "marketCap", 0) < min_market_cap
    THEN <<FALSE, Reason("Market cap basso", <<>>)>>
    ELSE IF Get(crypto_data, "price", 0) <= 0
    THEN <<FALSE, Reason("Prezzo non valido", <<>>)>>
    ELSE <<TRUE, NoReason>>

\* the cooldown test of should_send_alert: the stored record of the key
\* still suppresses at t (priority is the priority the call was given)

\* variant: the cooldown of the priority of the call
cooldown_blocks_call_priority(last_alert, priority, t) ==
    LET cooldown_seconds == cooldown_config[priority]
        time_since_last == t - last_alert.timestamp
    IN  time_since_last < cooldown_seconds

\* variant: still suppressed at exactly cooldown seconds
cooldown_blocks_inclusive(last_alert, priority, t) ==
    LET cooldown_seconds == cooldown_config[last_alert.priority]
        time_since_last == t - last_alert.timestamp
    IN  time_since_last <= cooldown_seconds

\* variant: the comparison is inverted
cooldown_blocks_inverted(last_alert, priority, t) ==
    LET cooldown_seconds == cooldown_config[last_alert.priority]
        time_since_last == t - last_alert.timestamp
    IN  time_since_last > cooldown_seconds

cooldown_blocks(last_alert, priority, t) ==
    LET cooldown_seconds == cooldown_config[last_alert.priority]
        time_since_last == t - last_alert.timestamp
    IN  time_since_last < cooldown_seconds

\* variant: the quality filter is applied before the rate limit
should_send_alert_filter_first(self, coin_id, alert_type, crypto_data, priority, t) ==
    LET prio == IF priority = None THEN "MEDIUM" ELSE priority
        s1 == [self EXCEPT !.stats.total_checks = @ + 1]
        rl == _check_rate_limit(s1, t)
        s2 == rl.self
        fl == _check_filters(crypto_data)
        alert_key == AlertKey(coin_id, alert_type)
        last_alert == s2.alert_history[alert_key]
        remaining == cooldown_config[last_alert.priority]
                        - (t - last_alert.timestamp)
    IN  IF ~fl[1]
        THEN [self |-> [s2 EXCEPT !.stats.alerts_blocked_filters = @ + 1],
              ret  |-> <<FALSE, fl[2]>>]
        ELSE IF ~rl.ret
        THEN [self |-> [s2 EXCEPT !.stats.alerts_blocked_rate_limit = @ + 1],
              ret  |-> <<FALSE, Reason("Rate limit raggiunto", <<>>)>>]
        ELSE IF alert_key \in DOMAIN s2.alert_history
                /\ cooldown_blocks(last_alert, prio, t)
        THEN [self |-> [s2 EXCEPT !.stats.alerts_blocked_cooldown = @ + 1],
              ret  |-> <<FALSE, Reason("Cooldown attivo",
                                       <<FormatMinutes(remaining)>>)>>]
        ELSE [self |-> s2, ret |-> <<TRUE, Reason("Alert approvato", <<>>)>>]

\* variant: an evaluation refused by the rate limit is not counted
should_send_alert_late_count(self, coin_id, alert_type, crypto_data, priority, t) ==
    LET prio == IF priority = None THEN "MEDIUM" ELSE priority
        rl == _check_rate_limit(self, t)
        s2 == [rl.self EXCEPT !.stats.total_checks =
                  IF rl.ret THEN @ + 1 ELSE @]
        fl == _check_filters(crypto_data)
        alert_key == AlertKey(coin_id, alert_type)
        last_alert == s2.alert_history[alert_key]
        remaining == cooldown_config[last_alert.priority]
                        - (t - last_alert.timestamp)
    IN  IF ~rl.ret
        THEN [self |-> [s2 EXCEPT !.stats.alerts_blocked_rate_limit = @ + 1],
              ret  |-> <<FALSE, Reason("Rate limit raggiunto", <<>>)>>]
        ELSE IF ~fl[1]
        THEN [self |-> [s2 EXCEPT !.stats.alerts_blocked_filters = @ + 1],
              ret  |-> <<FALSE, fl[2]>>]
        ELSE IF alert_key \in DOMAIN s2.alert_history
                /\ cooldown_blocks(last_alert, prio, t)
        THEN [self |-> [s2 EXCEPT !.stats.alerts_blocked_cooldown = @ + 1],
              ret  |-> <<FALSE, Reason("Cooldown attivo",
                                       <<FormatMinutes(remaining)>>)>>]
        ELSE [self |-> s2, ret |-> <<TRUE, Reason("Alert approvato", <<>>)>>]

\* variant: a HIGH priority passes the quality filter
should_send_alert_high_bypass(self, coin_id, alert_type, crypto_data, priority, t) ==
    LET prio == IF priority = None THEN "MEDIUM" ELSE priority
        s1 == [self EXCEPT !.stats.total_checks = @ + 1]
        rl == _check_rate_limit(s1, t)
        s2 == rl.self
        fl == _check_filters(crypto_data)
        alert_key == AlertKey(coin_id, alert_type)
        last_alert == s2.alert_history[alert_key]
        remaining == cooldown_config[last_alert.priority]
                        - (t - last_alert.timestamp)
    IN  IF ~rl.ret
        THEN [self |-> [s2 EXCEPT !.stats.alerts_blocked_rate_limit = @ + 1],
              ret  |-> <<FALSE, Reason("Rate limit raggiunto", <<>>)>>]
        ELSE IF ~fl[1] /\ prio # "HIGH"
        THEN [self |-> [s2 EXCEPT !.stats.alerts_blocked_filters = @ + 1],
              ret  |-> <<FALSE, fl[2]>>]
        ELSE IF alert_key \in DOMAIN s2.alert_history
                /\ cooldown_blocks(last_alert, prio, t)
        THEN [self |-> [s2 EXCEPT !.stats.alerts_blocked_cooldown = @ + 1],
              ret  |-> <<FALSE, Reason("Cooldown attivo",
                                       <<FormatMinutes(remaining)>>)>>]
        ELSE [self |-> s2, ret |-> <<TRUE, Reason("Alert approvato", <<>>)>>]

should_send_alert(self, coin_id, alert_type, crypto_data, priority, t) ==
    LET prio == IF priority = None THEN "MEDIUM" ELSE priority
        s1 == [self EXCEPT !.stats.total_checks = @ + 1]
        rl == _check_rate_limit(s1, t)
        s2 == rl.self
        fl == _check_filters(crypto_data)
        alert_key == AlertKey(coin_id, alert_type)
        last_alert == s2.alert_history[alert_key]
        remaining == cooldown_config[last_alert.priority]
                        - (t - last_alert.timestamp)
    IN  IF ~rl.ret
        THEN [self |-> [s2 EXCEPT !.stats.alerts_blocked_rate_limit = @ + 1],
              ret  |-> <<FALSE, Reason("Rate limit raggiunto", <<>>)>>]
        ELSE IF ~fl[1]
        THEN [self |-> [s2 EXCEPT !.stats.alerts_blocked_filters = @ + 1],
              ret  |-> <<FALSE, fl[2]>>]
        ELSE IF alert_key \in DOMAIN s2.alert_history
                /\ cooldown_blocks(last_alert, prio, t)
        THEN [self |-> [s2 EXCEPT !.stats.alerts_blocked_cooldown = @ + 1],
              ret  |-> <<FALSE, Reason("Cooldown attivo",
                                       <<FormatMinutes(remaining)>>)>>]
        ELSE [self |-> s2, ret |-> <<TRUE, Reason("Alert approvato", <<>>)>>]

\* a record_alert that files the record under the coin alone
record_alert_by_coin(self, coin_id, alert_type, price, priority, t) ==
    LET s1 == [self EXCEPT !.alert_history =
                  DictSet(@, coin_id,
                          AlertRecord(coin_id, alert_type, t, price, priority))]
        s2 == [s1 EXCEPT !.stats.alerts_sent = @ + 1]
    IN  _track_rate_limit(s2, t)

record_alert(self, coin_id, alert_type, price, priority, t) ==
    LET alert_key == AlertKey(coin_id, alert_type)
        s1 == [self EXCEPT !.alert_history =
                  DictSet(@, alert_key,
                          AlertRecord(coin_id, alert_type, t, price, priority))]
        s2 == [s1 EXCEPT !.stats.alerts_sent = @ + 1]
    IN  _track_rate_limit(s2, t)

\* variant: the age limit is counted in minutes
cleanup_old_alerts_minutes(self, max_age_hours, t) ==
    LET cutoff_time == t - (max_age_hours * 60)
        keep == {k \in DOMAIN self.alert_history :
                    self.alert_history[k].timestamp > cutoff_time}
    IN  [self EXCEPT !.alert_history = [k \in keep |-> self.alert_history[k]]]

\* variant: a record whose cooldown has time left is kept whatever its age
cleanup_old_alerts_keep_active(self, max_age_hours, t) ==
    LET cutoff_time == t - (max_age_hours * 3600)
        keep == {k \in DOMAIN self.alert_history :
                    \/ self.alert_history[k].timestamp > cutoff_time
                    \/ cooldown_config[self.alert_history[k].priority]
                          - (t - self.alert_history[k].timestamp) > 0}
    IN  [self EXCEPT !.alert_history = [k \in keep |-> self.alert_history[k]]]

\* variant: a record exactly at the cutoff is kept
cleanup_old_alerts_inclusive(self, max_age_hours, t) ==
    LET cutoff_time == t - (max_age_hours * 3600)
        keep == {k \in DOMAIN self.alert_history :
                    self.alert_history[k].timestamp >= cutoff_time}
    IN  [self EXCEPT !.alert_history = [k \in keep |-> self.alert_history[k]]]

cleanup_old_alerts(self, max_age_hours, t) ==
    LET cutoff_time == t - (max_age_hours * 3600)
        keep == {k \in DOMAIN self.alert_history :
                    self.alert_history[k].timestamp > cutoff_time}
    IN  [self EXCEPT !.alert_history = [k \in keep |-> self.alert_history[k]]]

RECURSIVE GCD(_, _)
GCD(a, b) == IF b = 0 THEN a ELSE GCD(b, a % b)

\* the number n / d, d > 0, in lowest terms
Ratio(n, d) == [num |-> n \div GCD(n, d), den |-> d \div GCD(n, d)]

\* the dict get_stats returns; success_rate is kept as an exact fraction
get_stats(self) ==
    [total_checks |-> self.stats.total_checks,
     alerts_sent |-> self.stats.alerts_sent,
     alerts_blocked_cooldown |-> self.stats.alerts_blocked_cooldown,
     alerts_blocked_filters |-> self.stats.alerts_blocked_filters,
     alerts_blocked_rate_limit |-> self.stats.alerts_blocked_rate_limit,
     active_cooldowns |-> Cardinality(DOMAIN self.alert_history),
     success_rate |-> IF self.stats.total_checks > 0
                      THEN Ratio(self.stats.alerts_sent * 100,
                                 self.stats.total_checks)
                      ELSE Ratio(0, 1)]

\* variant: the rate window is emptied as well
reset_stats_window(self) ==
    [self EXCEPT !.stats = ZeroStats, !.alerts_sent_minute = <<>>]

\* variant: only the number of evaluations is set back
reset_stats_checks_only(self) == [self EXCEPT !.stats.total_checks = 0]

reset_stats(self) == [self EXCEPT !.stats = ZeroStats]

Abs(x) == IF x < 0 THEN -x ELSE x

\* variant: the PUMP rule of 50 is tried before the PUMP rule of 100
get_priority_reordered(alert_type, crypto_data) ==
    LET change_24h == Abs(Get(crypto_data, "change24h", 0))
        market_cap == Get(crypto_data, "marketCap", 0)
    IN  IF alert_type = "WHALE" THEN "HIGH"
        ELSE IF alert_type = "PUMP" /\ change_24h > 50 THEN "MEDIUM"
        ELSE IF alert_type = "PUMP" /\ change_24h > 100 THEN "HIGH"
        ELSE IF alert_type = "STRONG_BUY" /\ market_cap > 1000000000 THEN "HIGH"
        ELSE IF alert_type = "STRONG_BUY" THEN "MEDIUM"
        ELSE IF alert_type = "VOLUME_SPIKE" THEN "MEDIUM"
        ELSE "LOW"

\* variant: the change is compared with its sign
get_priority_signed(alert_type, crypto_data) ==
    LET change_24h == Get(crypto_data, "change24h", 0)
        market_cap == Get(crypto_data, "marketCap", 0)
    IN  IF alert_type = "WHALE" THEN "HIGH"
        ELSE IF alert_type = "PUMP" /\ change_24h > 100 THEN "HIGH"
        ELSE IF alert_type = "STRONG_BUY" /\ market_cap > 1000000000 THEN "HIGH"
        ELSE IF alert_type = "STRONG_BUY" THEN "MEDIUM"
        ELSE IF alert_type = "PUMP" /\ change_24h > 50 THEN "MEDIUM"
        ELSE IF alert_type = "VOLUME_SPIKE" THEN "MEDIUM"
        ELSE "LOW"

get_priority(alert_type, crypto_data) ==
    LET change_24h == Abs(Get(crypto_data, "change24h", 0))
        market_cap == Get(crypto_data, "marketCap", 0)
    IN  IF alert_type = "WHALE" THEN "HIGH"
        ELSE IF alert_type = "PUMP" /\ change_24h > 100 THEN "HIGH"
        ELSE IF alert_type = "STRONG_BUY" /\ market_cap > 1000000000 THEN "HIGH"
        ELSE IF alert_type = "STRONG_BUY" THEN "MEDIUM"
        ELSE IF alert_type = "PUMP" /\ change_24h > 50 THEN "MEDIUM"
        ELSE IF alert_type = "VOLUME_SPIKE" THEN "MEDIUM"
        ELSE "LOW"

----------------------------------------------------------------------------
(* class AlertOptimizer of alert_optimizer.py, which main.py does not      *)
(* import; its definitions carry the prefix ao_                            *)

ao_AlertType ==
    {"STRONG_BUY", "WHALE", "PUMP", "VOLUME_SPIKE", "PRICE_DROP", "SENTIMENT"}

ao_cooldown_config ==
    [HIGH |-> 1800, MEDIUM |-> 3600, LOW |-> 7200]

ao_min_volume_24h == 1000000

ao_min_market_cap == 10000000

ao_max_alerts_per_minute == 5

ao_RateWindowSeconds == 60

ao_NewAlertOptimizer ==
    [alert_history |-> EmptyDict, alerts_sent_minute |-> <<>>,
     stats |-> [total_checks |-> 0, alerts_sent |-> 0,
                alerts_blocked_cooldown |-> 0, alerts_blocked_filters |-> 0,
                alerts_blocked_rate_limit |-> 0]]

ao__check_rate_limit(self, t) ==
    LET kept == SelectSeq(self.alerts_sent_minute,
                          LAMBDA x : t - x < ao_RateWindowSeconds)
    IN  [self |-> [self EXCEPT !.alerts_sent_minute = kept],
         ret  |-> Len(kept) < ao_max_alerts_per_minute]

ao__track_rate_limit(self, t) ==
    [self EXCEPT !.alerts_sent_minute = Append(@, t)]

\* the reasons carry the value that failed the filter
ao__check_filters(crypto_data) ==
    LET volume == Get(crypto_data, "volume24h", 0)
        market_cap == Get(crypto_data, "marketCap", 0)
        price == Get(crypto_data, "price", 0)
    IN  IF volume < ao_min_volume_24h
        THEN <<FALSE, Reason("Volume basso", <<volume>>)>>
        ELSE IF market_cap < ao_min_market_cap
        THEN <<FALSE, Reason("Market cap basso", <<market_cap>>)>>
        ELSE IF price <= 0
        THEN <<FALSE, Reason("Prezzo non valido", <<>>)>>
        ELSE <<TRUE, NoReason>>

\* variant: the priority override admits a HIGH alert during a cooldown
ao_should_send_alert_high_override(self, coin_id, alert_type, crypto_data, priority, t) ==
    LET prio == IF priority = None THEN "MEDIUM" ELSE priority
        s1 == [self EXCEPT !.stats.total_checks = @ + 1]
        rl == ao__check_rate_limit(s1, t)
        s2 == rl.self
        fl == ao__check_filters(crypto_data)
        alert_key == coin_id \o "_" \o alert_type
        last_alert == s2.alert_history[alert_key]
        cooldown_seconds == ao_cooldown_config[last_alert.priority]
        time_since_last == t - last_alert.timestamp
        remaining == cooldown_seconds - time_since_last
    IN  IF ~rl.ret
        THEN [self |-> [s2 EXCEPT !.stats.alerts_blocked_rate_limit = @ + 1],
              ret  |-> <<FALSE, Reason("Rate limit raggiunto", <<>>)>>]
        ELSE IF ~fl[1]
        THEN [self |-> [s2 EXCEPT !.stats.alerts_blocked_filters = @ + 1],
              ret  |-> <<FALSE, fl[2]>>]
        ELSE IF /\ alert_key \in DOMAIN s2.alert_history
                /\ time_since_last < cooldown_seconds
                /\ prio # "HIGH"
        THEN [self |-> [s2 EXCEPT !.stats.alerts_blocked_cooldown = @ + 1],
              ret  |-> <<FALSE, Reason("Cooldown attivo, rimanenti",
                                       <<FormatMinutes(remaining)>>)>>]
        ELSE [self |-> s2, ret |-> <<TRUE, Reason("Alert approvato", <<>>)>>]

\* priority None stands for a call without the argument, which takes the
\* default AlertPriority.MEDIUM; the branch for HIGH is empty
ao_should_send_alert(self, coin_id, alert_type, crypto_data, priority, t) ==
    LET prio == IF priority = None THEN "MEDIUM" ELSE priority
        s1 == [self EXCEPT !.stats.total_checks = @ + 1]
        rl == ao__check_rate_limit(s1, t)
        s2 == rl.self
        fl == ao__check_filters(crypto_data)
        alert_key == coin_id \o "_" \o alert_type
        last_alert == s2.alert_history[alert_key]
        cooldown_seconds == ao_cooldown_config[last_alert.priority]
        time_since_last == t - last_alert.timestamp
        remaining == cooldown_seconds - time_since_last
        approved == [self |-> s2,
                     ret |-> <<TRUE, Reason("Alert approvato", <<>>)>>]
    IN  IF ~rl.ret
        THEN [self |-> [s2 EXCEPT !.stats.alerts_blocked_rate_limit = @ + 1],
              ret  |-> <<FALSE, Reason("Rate limit raggiunto", <<>>)>>]
        ELSE IF ~fl[1]
        THEN [self |-> [s2 EXCEPT !.stats.alerts_blocked_filters = @ + 1],
              ret  |-> <<FALSE, fl[2]>>]
        ELSE IF /\ alert_key \in DOMAIN s2.alert_history
                /\ time_since_last < cooldown_seconds
        THEN [self |-> [s2 EXCEPT !.stats.alerts_blocked_cooldown = @ + 1],
              ret  |-> <<FALSE, Reason("Cooldown attivo, rimanenti",
                                       <<FormatMinutes(remaining)>>)>>]
        ELSE IF prio = "HIGH" THEN approved
        ELSE approved

ao_record_alert(self, coin_id, alert_type, price, priority, t) ==
    LET alert_key == coin_id \o "_" \o alert_type
        s1 == [self EXCEPT !.alert_history =
                  DictSet(@, alert_key,
                          AlertRecord(coin_id, alert_type, t, price, priority))]
        s2 == [s1 EXCEPT !.stats.alerts_sent = @ + 1]
    IN  ao__track_rate_limit(s2, t)

ao_get_priority(alert_type, crypto_data) ==
    LET change_24h == Abs(Get(crypto_data, "change24h", 0))
        volume == Get(crypto_data, "volume24h", 0)
        market_cap == Get(crypto_data, "marketCap", 0)
    IN  IF alert_type = "WHALE" THEN "HIGH"
        ELSE IF alert_type = "PUMP" /\ change_24h > 100 THEN "HIGH"
        ELSE IF alert_type = "STRONG_BUY" /\ market_cap > 1000000000 THEN "HIGH"
        ELSE IF alert_type = "STRONG_BUY" THEN "MEDIUM"
        ELSE IF alert_type = "PUMP" /\ change_24h > 50 THEN "MEDIUM"
        ELSE IF alert_type = "VOLUME_SPIKE" THEN "MEDIUM"
        ELSE "LOW"

ao_cleanup_old_alerts(self, max_age_hours, t) ==
    LET cutoff_time == t - (max_age_hours * 3600)
        keep == {key \in DOMAIN self.alert_history :
                    self.alert_history[key].timestamp > cutoff_time}
    IN  [self EXCEPT !.alert_history =
            [key \in keep |-> self.alert_history[key]]]

ao_reset_stats(self) ==
    [self EXCEPT !.stats = [total_checks |-> 0, alerts_sent |-> 0,
                            alerts_blocked_cooldown |-> 0,
                            alerts_blocked_filters |-> 0,
                            alerts_blocked_rate_limit |-> 0]]

----------------------------------------------------------------------------
(* The monitoring functions of main.py *)

check_interval == 300

cleanup_interval == 3600

pace_interval == 2

backoff_interval == 30

default_max_age_hours == 24

Analysis(alert_type, priority, should_check) ==
    [raised |-> FALSE, alert_type |-> alert_type, priority |-> priority,
     should_check |-> should_check]

\* a key of the snapshot whose value is None (a JSON null of the provider)
IsNone(coin_data, key) ==
    "none_keys" \in DOMAIN coin_data /\ key \in coin_data.none_keys

\* comparing a change24h of None with a number raises TypeError
TypeError == [raised |-> TRUE, alert_type |-> "", priority |-> None,
              should_check |-> FALSE]

\* variant: a change of exactly 50 already proposes a PUMP
\* variant: the caller leaves the priority at the default of
\* should_send_alert
analyze_crypto_default_priority(coin_data) ==
    LET change_24h == Get(coin_data, "change24h", 0)
        volume == Get(coin_data, "volume24h", 0)
        market_cap == Get(coin_data, "marketCap", 0)
    IN  IF IsNone(coin_data, "change24h") THEN TypeError
        ELSE IF change_24h > 50 THEN Analysis("PUMP", "MEDIUM", TRUE)
        ELSE IF 2 * volume > market_cap
        THEN Analysis("VOLUME_SPIKE", "MEDIUM", TRUE)
        ELSE IF change_24h < -20 THEN Analysis("PRICE_DROP", "MEDIUM", TRUE)
        ELSE IF change_24h > 10 /\ volume > 100000000
        THEN Analysis("STRONG_BUY", "MEDIUM", TRUE)
        ELSE Analysis("STRONG_BUY", "LOW", FALSE)

analyze_crypto_inclusive(coin_data) ==
    LET change_24h == Get(coin_data, "change24h", 0)
        volume == Get(coin_data, "volume24h", 0)
        market_cap == Get(coin_data, "marketCap", 0)
    IN  IF IsNone(coin_data, "change24h") THEN TypeError
        ELSE IF change_24h >= 50
        THEN Analysis("PUMP", get_priority("PUMP", coin_data), TRUE)
        ELSE IF 2 * volume > market_cap
        THEN Analysis("VOLUME_SPIKE", get_priority("VOLUME_SPIKE", coin_data), TRUE)
        ELSE IF change_24h < -20
        THEN Analysis("PRICE_DROP", get_priority("PRICE_DROP", coin_data), TRUE)
        ELSE IF change_24h > 10 /\ volume > 100000000
        THEN Analysis("STRONG_BUY", get_priority("STRONG_BUY", coin_data), TRUE)
        ELSE Analysis("STRONG_BUY", "LOW", FALSE)

analyze_crypto(coin_data) ==
    LET change_24h == Get(coin_data, "change24h", 0)
        volume == Get(coin_data, "volume24h", 0)
        market_cap == Get(coin_data, "marketCap", 0)
    IN  IF IsNone(coin_data, "change24h") THEN TypeError
        ELSE IF change_24h > 50
        THEN Analysis("PUMP", get_priority("PUMP", coin_data), TRUE)
        ELSE IF 2 * volume > market_cap
        THEN Analysis("VOLUME_SPIKE", get_priority("VOLUME_SPIKE", coin_data), TRUE)
        ELSE IF change_24h < -20
        THEN Analysis("PRICE_DROP", get_priority("PRICE_DROP", coin_data), TRUE)
        ELSE IF change_24h > 10 /\ volume > 100000000
        THEN Analysis("STRONG_BUY", get_priority("STRONG_BUY", coin_data), TRUE)
        ELSE Analysis("STRONG_BUY", "LOW", FALSE)

----------------------------------------------------------------------------
(* The callers of the optimizer: what they pass and when *)

\* the priority an evaluation is given: one that differs from the stored
\* one, or none
CallerPriorities == {"HIGH", None}

Snapshot(volume24h, marketCap, price, change24h) ==
    [volume24h |-> volume24h, marketCap |-> marketCap, price |-> price,
     change24h |-> change24h]

GoodSnapshot == Snapshot(5000000, 200000000, 1, 60)

\* fails the volume check, and the two checks after it as well
LowVolumeSnapshot == Snapshot(999999, 9999999, 0, 60)

\* passes the volume check, fails the market cap check and the price check
LowCapSnapshot == Snapshot(1000000, 9999999, 0, 60)

\* fails the price check only
BadPriceSnapshot == Snapshot(1000000, 10000000, 0, 60)

Snapshots == {GoodSnapshot, LowVolumeSnapshot, LowCapSnapshot, BadPriceSnapshot}

\* the (coin, alert type) pairs asked about
Subjects == {<<"bitcoin", "PUMP">>, <<"bitcoin", "WHALE">>, <<"ethereum", "PUMP">>}

LongSubjects == {<<"bitcoin", "PUMP">>, <<"ethereum", "PUMP">>}

LongSnapshots == {GoodSnapshot, LowVolumeSnapshot}

BurstSubjects == {<<"bitcoin", "PUMP">>, <<"ethereum", "PUMP">>}

BurstCommits == {<<"bitcoin", "PUMP">>}

\* the instants at which the clock is read: around the rate window, and
\* around the ends of the cooldowns
BurstClock == {0, 30, 60}

LongClock == {0, 1800, 3600, 7200}

\* the coins whose market moves under the monitoring task; the others stay
\* quiet
\* pairs that share a coin, share an alert type, or run into each other when
\* written with the separator: a coin id that ends like an alert type begins
KeySubjects ==
    {<<"bitcoin", "PUMP">>, <<"bitcoin", "PRICE_DROP">>,
     <<"ethereum", "PUMP">>, <<"bitcoin_PRICE", "PUMP">>}

\* coin ids that hold the separator and a part of an alert type's value
KeyCoins ==
    {"bitcoin", "ethereum", "bitcoin_PRICE", "bitcoin_STRONG",
     "bitcoin_VOLUME", "bitcoin_PUMP"}

KeySnapshots == {GoodSnapshot, Snapshot(1000000, 10000000, 7, -30)}

KeyClock == {0, 1800}

ActiveCoins == {"bitcoin"}

\* the keys an alert can be asked about or recorded under
Keys == {AlertKey(s[1], s[2]) : s \in Subjects \cup KeySubjects}
            \cup {AlertKey(c, a) : c \in ActiveCoins, a \in AlertType}
            \cup {AlertKey(c, a) : c \in {"bitcoin", "ethereum"},
                                   a \in {"PUMP", "PRICE_DROP", "VOLUME_SPIKE"}}

Call(op, coin_id, alert_type, crypto_data, priority, price, ret) ==
    [op |-> op, coin_id |-> coin_id, alert_type |-> alert_type,
     crypto_data |-> crypto_data, priority |-> priority, price |-> price,
     approved |-> ret[1], reason |-> ret[2]]

NoCall(op) == Call(op, "", "", EmptyDict, None, 0, <<FALSE, NoReason>>)

\* what the evaluations of a key since its last commit have shown: the best
\* outcome, and whether there was one evaluation or more
NotEvaluated == [best |-> "none", calls |-> 0]

Outcome(old, ret) ==
    [best  |-> IF ret[1] \/ old.best = "approved" THEN "approved"
               ELSE IF ret[2].text # "Cooldown attivo"
                       \/ old.best = "not_suppressed"
               THEN "not_suppressed"
               ELSE old.best,
     calls |-> IF old.calls = 0 THEN 1 ELSE 2]

----------------------------------------------------------------------------
(* The optimizer driven by an arbitrary caller; t is the clock at the call *)

(* crypto_monitor.py: CryptoMonitor, prices in whole dollars *)

\* alert_thresholds, as the percentages threshold * 100 they are compared as
alert_thresholds == [bitcoin |-> 5, ethereum |-> 5, default |-> 10]

\* CryptoMonitor.__init__
NewCryptoMonitor == [last_prices |-> EmptyDict]

\* one round of the loop of check_price_changes, for the coin at position i
\* of the items of current_prices; acc is the instance, the alerts so far,
\* and whether the division has raised ZeroDivisionError
RECURSIVE check_price_step(_, _, _, _)
check_price_step(acc, items, current_prices, i) ==
    IF i > Len(items) \/ acc.raised THEN acc
    ELSE LET coin == items[i]
             current_price == current_prices[coin]
             known == coin \in DOMAIN acc.self.last_prices
             last_price == acc.self.last_prices[coin]
             threshold == Get(alert_thresholds, coin,
                              alert_thresholds["default"])
             alert == [coin |-> coin, current_price |-> current_price,
                       last_price |-> last_price]
         IN  IF known /\ last_price = 0
             THEN [acc EXCEPT !.raised = TRUE]
             ELSE check_price_step(
                    [self   |-> [acc.self EXCEPT !.last_prices =
                                    DictSet(@, coin, current_price)],
                     alerts |-> IF known
                                   /\ Abs(current_price - last_price) * 100
                                         >= threshold * Abs(last_price)
                                THEN Append(acc.alerts, alert)
                                ELSE acc.alerts,
                     raised |-> FALSE],
                    items, current_prices, i + 1)

\* items is the order in which the dict current_prices yields its coins
check_price_changes(self, items, current_prices) ==
    check_price_step([self |-> self, alerts |-> <<>>, raised |-> FALSE],
                     items, current_prices, 1)

\* the dict check_and_alert appends to the global alert_history
AlertEntry(coin_id, alert_type, priority, price) ==
    [coin_id |-> coin_id, alert_type |-> alert_type, priority |-> priority,
     price |-> price]

NoPending == [coin_id |-> "", alert_type |-> "", crypto_data |-> EmptyDict,
              priority |-> None]

\* the module globals, the program standing at position and whale_tracker
\* being bound to a tracker or not
GlobalsAt(position, tracker) ==
    /\ now = 0
    /\ alert_optimizer = NewAlertOptimizer
    /\ call = NoCall("init")
    /\ evaluated = [k \in Keys |-> NotEvaluated]
    /\ committed = [k \in Keys |-> <<>>]
    /\ monitoring_active = FALSE
    /\ whale_tracker = tracker
    /\ pc = position
    /\ coin_idx = 0
    /\ cycle = 0
    /\ starts = 0
    /\ last_cleanup = 0
    /\ pending = NoPending
    /\ whale_txs = 0
    /\ delivered = [k \in Keys |-> <<>>]
    /\ undelivered = {}
    /\ telegram_log = <<>>
    /\ alert_history = <<>>
    /\ cancelled_tasks = <<>>
    /\ crypto_monitor = NewCryptoMonitor
    /\ ao_optimizer = ao_NewAlertOptimizer

\* the module globals after import, before the startup event
InitGlobals == GlobalsAt("idle", TRUE)

Init ==
    /\ InitGlobals
    /\ telegram_configured = TRUE

ShouldSendAlert(t, coin_id, alert_type, crypto_data, priority) ==
    /\ t >= now
    /\ alert_optimizer.stats.total_checks < MaxChecks
    /\ now' = t
    /\ LET r == should_send_alert(alert_optimizer, coin_id, alert_type,
                                  crypto_data, priority, t)
           k == AlertKey(coin_id, alert_type)
       IN  /\ alert_optimizer' = r.self
           /\ call' = Call("should_send_alert", coin_id, alert_type,
                           crypto_data, priority, 0, r.ret)
           /\ evaluated' = [evaluated EXCEPT ![k] = Outcome(@, r.ret)]
    /\ UNCHANGED committed
    /\ UNCHANGED <<loop_vars, aux_vars>>

RecordAlert(t, coin_id, alert_type, price, priority) ==
    /\ t >= now
    /\ now' = t
    /\ alert_optimizer' = record_alert(alert_optimizer, coin_id, alert_type,
                                       price, priority, t)
    /\ call' = Call("record_alert", coin_id, alert_type, EmptyDict, priority,
                    price, <<FALSE, NoReason>>)
    /\ evaluated' = [evaluated EXCEPT ![AlertKey(coin_id, alert_type)] =
                        NotEvaluated]
    /\ committed' = [committed EXCEPT ![AlertKey(coin_id, alert_type)] =
                        <<t, priority>>]
    /\ UNCHANGED <<loop_vars, aux_vars>>

\* long horizon: few commits, the clock runs until the longest cooldown ends
Next ==
    \/ \E t \in LongClock, s \in LongSubjects, d \in LongSnapshots,
          p \in CallerPriorities : ShouldSendAlert(t, s[1], s[2], d, p)
    \/ \E t \in LongClock, s \in LongSubjects, p \in AlertPriority :
          /\ alert_optimizer.stats.alerts_sent < MaxCommits
          /\ RecordAlert(t, s[1], s[2], 1, p)

Spec == Init /\ [][Next]_vars

\* short horizon: a burst of commits around one rate window
NextBurst ==
    \/ \E t \in BurstClock, s \in BurstSubjects, d \in Snapshots,
          p \in CallerPriorities : ShouldSendAlert(t, s[1], s[2], d, p)
    \/ \E t \in BurstClock, s \in BurstCommits :
          /\ alert_optimizer.stats.alerts_sent < MaxBurst
          /\ RecordAlert(t, s[1], s[2], 1, "HIGH")

SpecBurst == Init /\ [][NextBurst]_vars

----------------------------------------------------------------------------
(* The monitoring task: monitoring_loop, check_and_alert and the endpoints *)
(* that start and stop it.  pc is the statement the task stands before.    *)

\* what fetch_coin_data returns: None, which check_and_alert tests with
\* "not coin_data", or a snapshot
NoCoinData == EmptyDict

QuietSnapshot == Snapshot(5000000, 200000000, 1, 0)

SurgeSnapshot == Snapshot(5000000, 200000000, 1, 150)

\* the provider answers null for the 24 h change
NullChangeSnapshot ==
    [volume24h |-> 5000000, marketCap |-> 200000000, price |-> 1,
     change24h |-> 0, none_keys |-> {"change24h"}]

Markets(coin_id) ==
    IF coin_id \in ActiveCoins
    THEN {NoCoinData, QuietSnapshot, GoodSnapshot, SurgeSnapshot,
          NullChangeSnapshot}
    ELSE {QuietSnapshot}

\* seconds a send_message call takes (its request times out after 10)
SendLatency == {0}

\* seconds the task stays in asyncio.sleep(check_interval): the interval, or
\* longer when the event loop wakes it late
SleepDelays == {check_interval, 1790}

Notification(t, gated) == [t |-> t, gated |-> gated]

\* the last max_alerts_per_minute + 1 confirmed notifications
Logged(log, n) ==
    LET all == Append(log, n)
    IN  IF Len(all) > max_alerts_per_minute + 1 THEN Tail(all) ELSE all

\* where the task can be suspended: before its first statement, in the
\* three sleeps, and, with a connected database, in db.save_price before the
\* snapshot is analysed, in db.save_alert between record_alert and the
\* append to alert_history, and in db.save_whale_transaction
SuspensionPoints ==
    {"enter", "check", "save_alert", "pace", "whale_alert", "sleep", "backoff"}

StartMonitoring ==
    /\ ~monitoring_active
    /\ pc \in {"idle", "done"}
    /\ starts < MaxStarts
    /\ monitoring_active' = TRUE
    /\ pc' = "enter"
    /\ starts' = starts + 1
    /\ call' = NoCall("start_monitoring")
    /\ UNCHANGED <<now, alert_optimizer, evaluated, committed,
                   telegram_configured, aux_vars, whale_tracker, coin_idx, cycle,
                   last_cleanup, pending, whale_txs, delivered, undelivered,
                   telegram_log>>

StopMonitoring ==
    /\ monitoring_active
    /\ pc \in SuspensionPoints
    /\ monitoring_active' = FALSE
    /\ pc' = "idle"
    /\ coin_idx' = 0
    /\ whale_txs' = 0
    /\ pending' = NoPending
    /\ call' = NoCall("stop_monitoring")
    /\ UNCHANGED <<now, alert_optimizer, evaluated, committed,
                   telegram_configured, aux_vars, whale_tracker, cycle, starts,
                   last_cleanup, delivered, undelivered, telegram_log>>

LoopEnter ==
    /\ pc = "enter"
    /\ last_cleanup' = now
    /\ pc' = "head"
    /\ call' = NoCall("monitoring_loop")
    /\ UNCHANGED <<now, alert_optimizer, evaluated, committed,
                   monitoring_active, telegram_configured, aux_vars, whale_tracker,
                   coin_idx, cycle, starts, pending, whale_txs, delivered,
                   undelivered, telegram_log>>

LoopHead ==
    /\ pc = "head"
    /\ cycle < MaxCycles
    /\ IF monitoring_active
       THEN /\ pc' = "check"
            /\ coin_idx' = 1
            /\ cycle' = cycle + 1
       ELSE /\ pc' = "done"
            /\ UNCHANGED <<coin_idx, cycle>>
    /\ call' = NoCall("while")
    /\ UNCHANGED <<now, alert_optimizer, evaluated, committed,
                   monitoring_active, telegram_configured, aux_vars, whale_tracker,
                   starts, last_cleanup, pending, whale_txs, delivered, undelivered,
                   telegram_log>>

\* check_and_alert up to the decision of the optimizer; after_no_data is
\* where the task goes on when fetch_coin_data gave None, after_refusal
\* where it goes on when should_send_alert gave False
ScanTo(coin_data, after_no_data, after_refusal) ==
    /\ pc = "check"
    /\ LET coin_id == TRACKED_COINS[coin_idx]
           a == analyze_crypto(coin_data)
           r == should_send_alert(alert_optimizer, coin_id, a.alert_type,
                                  coin_data, a.priority, now)
           k == AlertKey(coin_id, a.alert_type)
       IN  IF coin_data = NoCoinData
           THEN /\ pc' = after_no_data
                /\ call' = NoCall("fetch_coin_data")
                /\ UNCHANGED <<alert_optimizer, evaluated, pending>>
           ELSE IF a.raised
           THEN /\ pc' = "backoff"
                /\ call' = NoCall("analyze_crypto")
                /\ UNCHANGED <<alert_optimizer, evaluated, pending>>
           ELSE IF ~a.should_check
           THEN /\ pc' = "pace"
                /\ call' = NoCall("analyze_crypto")
                /\ UNCHANGED <<alert_optimizer, evaluated, pending>>
           ELSE /\ alert_optimizer' = r.self
                /\ call' = Call("should_send_alert", coin_id, a.alert_type,
                                coin_data, a.priority, 0, r.ret)
                /\ evaluated' = [evaluated EXCEPT ![k] = Outcome(@, r.ret)]
                /\ IF r.ret[1] \/ after_refusal = "dispatch"
                   THEN /\ pc' = "dispatch"
                        /\ pending' = [coin_id |-> coin_id,
                                       alert_type |-> a.alert_type,
                                       crypto_data |-> coin_data,
                                       priority |-> a.priority]
                   ELSE /\ pc' = after_refusal
                        /\ UNCHANGED pending
    /\ UNCHANGED <<now, committed, monitoring_active, telegram_configured, aux_vars,
                   whale_tracker, coin_idx, cycle, starts, last_cleanup, whale_txs,
                   delivered, undelivered, telegram_log>>

\* variant: a failed fetch ends the cycle like a raised exception
Scan_fetch_raises(coin_data) == ScanTo(coin_data, "backoff", "pace")

\* variant: the message is sent whatever should_send_alert answered
Scan_dispatch_refused(coin_data) == ScanTo(coin_data, "pace", "dispatch")

\* "if not coin_data: return" and "if not should_send: return" lead to the
\* sleep after the coin
Scan(coin_data) == ScanTo(coin_data, "pace", "pace")

\* send_message answers ok after lat seconds; record_alert runs if recorded;
\* db.save_alert then either returns without suspending the task (no
\* database connected), and the entry is appended to alert_history, or
\* suspends it in the database call
SendAndRecord(ok, lat, recorded, suspended) ==
    /\ pc = "dispatch"
    /\ ok => telegram_configured
    /\ suspended => recorded
    /\ now' = now + lat
    /\ LET k == AlertKey(pending.coin_id, pending.alert_type)
       IN  /\ IF recorded
              THEN /\ alert_optimizer' =
                          record_alert(alert_optimizer, pending.coin_id,
                                       pending.alert_type,
                                       pending.crypto_data.price,
                                       pending.priority, now')
                   /\ call' = Call("record_alert", pending.coin_id,
                                   pending.alert_type, EmptyDict,
                                   pending.priority,
                                   pending.crypto_data.price,
                                   <<FALSE, NoReason>>)
                   /\ evaluated' = [evaluated EXCEPT ![k] = NotEvaluated]
                   /\ committed' = [committed EXCEPT ![k] =
                                       <<now', pending.priority>>]
              ELSE /\ call' = Call("send_message", pending.coin_id,
                                   pending.alert_type, pending.crypto_data,
                                   pending.priority, 0, <<FALSE, NoReason>>)
                   /\ UNCHANGED <<alert_optimizer, evaluated, committed>>
           /\ IF ok
              THEN /\ delivered' = [delivered EXCEPT ![k] =
                                       <<now', pending.priority>>]
                   /\ undelivered' = undelivered \ {k}
                   /\ telegram_log' = Logged(telegram_log,
                                             Notification(now', recorded))
              ELSE /\ undelivered' = undelivered \cup {k}
                   /\ UNCHANGED <<delivered, telegram_log>>
    /\ IF suspended
       THEN /\ pc' = "save_alert"
            /\ UNCHANGED <<pending, alert_history>>
       ELSE /\ pc' = "pace"
            /\ pending' = NoPending
            /\ alert_history' =
                   IF recorded
                   THEN Append(alert_history,
                               AlertEntry(pending.coin_id, pending.alert_type,
                                          pending.priority,
                                          pending.crypto_data.price))
                   ELSE alert_history
    /\ UNCHANGED <<monitoring_active, telegram_configured, cancelled_tasks,
                   crypto_monitor, ao_optimizer, whale_tracker, coin_idx, cycle, starts,
                   last_cleanup, whale_txs>>

\* a dispatch that records the alert whatever send_message answered
\* variant: the task is cancelled after send_message succeeded and before
\* record_alert
Dispatch_cancelled(ok, lat, suspended) ==
    SendAndRecord(ok, lat, FALSE, suspended)

Dispatch_record_always(ok, lat, suspended) ==
    SendAndRecord(ok, lat, TRUE, suspended)

\* check_and_alert from the answer of the optimizer to db.save_alert
Dispatch(ok, lat, suspended) == SendAndRecord(ok, lat, ok, suspended)

\* db.save_alert returns (its own errors are caught inside it) and
\* check_and_alert appends the entry to alert_history
SaveAlert ==
    /\ pc = "save_alert"
    /\ alert_history' = Append(alert_history,
                               AlertEntry(pending.coin_id, pending.alert_type,
                                          pending.priority,
                                          pending.crypto_data.price))
    /\ pc' = "pace"
    /\ pending' = NoPending
    /\ call' = NoCall("save_alert")
    /\ UNCHANGED <<now, alert_optimizer, evaluated, committed,
                   monitoring_active, telegram_configured, cancelled_tasks,
                   crypto_monitor, ao_optimizer, whale_tracker, coin_idx, cycle, starts,
                   last_cleanup, whale_txs, delivered, undelivered,
                   telegram_log>>

\* asyncio.sleep(2) after each coin
Pace ==
    /\ pc = "pace"
    /\ now' = now + pace_interval
    /\ IF coin_idx < Len(TRACKED_COINS)
       THEN /\ coin_idx' = coin_idx + 1
            /\ pc' = "check"
       ELSE /\ pc' = "cleanup"
            /\ UNCHANGED coin_idx
    /\ call' = NoCall("sleep")
    /\ UNCHANGED <<alert_optimizer, evaluated, committed, monitoring_active,
                   telegram_configured, aux_vars, whale_tracker, cycle, starts, last_cleanup,
                   pending, whale_txs, delivered, undelivered, telegram_log>>

Cleanup ==
    /\ pc = "cleanup"
    /\ IF now - last_cleanup > cleanup_interval
       THEN /\ alert_optimizer' =
                   cleanup_old_alerts(alert_optimizer, default_max_age_hours, now)
            /\ last_cleanup' = now
            /\ call' = NoCall("cleanup_old_alerts")
       ELSE /\ call' = NoCall("get_stats")
            /\ UNCHANGED <<alert_optimizer, last_cleanup>>
    /\ pc' = "whale"
    /\ UNCHANGED <<now, evaluated, committed, monitoring_active,
                   telegram_configured, aux_vars, whale_tracker, coin_idx, cycle, starts,
                   pending, whale_txs, delivered, undelivered, telegram_log>>

\* check_whale_activity finds n transactions
WhaleCheck(n) ==
    /\ pc = "whale"
    /\ whale_txs' = IF whale_tracker THEN n ELSE 0
    /\ pc' = IF whale_txs' > 0 THEN "whale_alert" ELSE "sleep"
    /\ call' = NoCall("check_whale_activity")
    /\ UNCHANGED <<now, alert_optimizer, evaluated, committed,
                   monitoring_active, telegram_configured, aux_vars, whale_tracker,
                   coin_idx, cycle, starts, last_cleanup, pending, delivered,
                   undelivered, telegram_log>>

\* the notification of one whale transaction
WhaleAlert(ok, lat) ==
    /\ pc = "whale_alert"
    /\ ok => telegram_configured
    /\ now' = now + lat
    /\ telegram_log' = IF ok
                       THEN Logged(telegram_log, Notification(now', FALSE))
                       ELSE telegram_log
    /\ whale_txs' = whale_txs - 1
    /\ pc' = IF whale_txs' > 0 THEN "whale_alert" ELSE "sleep"
    /\ call' = NoCall("send_message")
    /\ UNCHANGED <<alert_optimizer, evaluated, committed, monitoring_active,
                   telegram_configured, aux_vars, whale_tracker, coin_idx, cycle, starts,
                   last_cleanup, pending, delivered, undelivered>>

\* asyncio.sleep(check_interval)
Sleep(d) ==
    /\ pc = "sleep"
    /\ now' = now + d
    /\ pc' = "head"
    /\ call' = NoCall("sleep")
    /\ UNCHANGED <<alert_optimizer, evaluated, committed, monitoring_active,
                   telegram_configured, aux_vars, whale_tracker, coin_idx, cycle, starts,
                   last_cleanup, pending, whale_txs, delivered, undelivered,
                   telegram_log>>

\* variant: the loop ends after the sleep of its except branch
Backoff_exit ==
    /\ pc = "backoff"
    /\ now' = now + backoff_interval
    /\ pc' = "done"
    /\ call' = NoCall("sleep")
    /\ UNCHANGED <<alert_optimizer, evaluated, committed, monitoring_active,
                   telegram_configured, aux_vars, whale_tracker, coin_idx, cycle, starts,
                   last_cleanup, pending, whale_txs, delivered, undelivered,
                   telegram_log>>

\* the except branch of the loop
Backoff ==
    /\ pc = "backoff"
    /\ now' = now + backoff_interval
    /\ pc' = "head"
    /\ call' = NoCall("sleep")
    /\ UNCHANGED <<alert_optimizer, evaluated, committed, monitoring_active,
                   telegram_configured, aux_vars, whale_tracker, coin_idx, cycle, starts,
                   last_cleanup, pending, whale_txs, delivered, undelivered,
                   telegram_log>>

InitLoop ==
    /\ InitGlobals
    /\ telegram_configured \in BOOLEAN

NextLoop ==
    \/ StartMonitoring
    \/ StopMonitoring
    \/ LoopEnter
    \/ LoopHead
    \/ /\ pc = "check"
       /\ \E d \in Markets(TRACKED_COINS[coin_idx]) : Scan(d)
    \/ \E ok \in BOOLEAN, lat \in SendLatency, suspended \in BOOLEAN :
          Dispatch(ok, lat, suspended)
    \/ SaveAlert
    \/ Pace
    \/ Cleanup
    \/ \E n \in 0..MaxWhales : WhaleCheck(n)
    \/ \E ok \in BOOLEAN, lat \in SendLatency : WhaleAlert(ok, lat)
    \/ \E d \in SleepDelays : Sleep(d)
    \/ Backoff

SpecLoop == InitLoop /\ [][NextLoop]_vars

\* the event loop wakes the task when asyncio.sleep(30) is over, and the
\* task then runs to the test of its while statement
SpecLoopLive ==
    /\ InitLoop
    /\ [][NextLoop]_vars
    /\ WF_vars(Backoff)
    /\ WF_vars(LoopHead)

----------------------------------------------------------------------------
(* One alert followed from its first evaluation on: the caller classifies *)
(* the snapshot, asks the optimizer, and commits after an approval        *)

(* The requests that start and stop the task, taken apart: a stop request  *)
(* cancels the task and waits for it, and other requests are served until *)
(* the cancelled task has run for the last time                           *)

TaskMarkets(coin_id) ==
    IF coin_id \in ActiveCoins
    THEN {NoCoinData, GoodSnapshot, NullChangeSnapshot}
    ELSE {QuietSnapshot}

\* requests are served once main.py has been imported
NotImported == {"import", "import_error"}

\* POST /api/start-monitoring, and the auto-start of the startup handler
StartRequest ==
    /\ pc \notin NotImported
    /\ call' = [op |-> "start_monitoring", status |-> "started"]
    /\ IF monitoring_active
       THEN UNCHANGED <<monitoring_active, pc, starts>>
       ELSE /\ starts < MaxStarts
            /\ monitoring_active' = TRUE
            /\ pc' = "enter"
            /\ starts' = starts + 1
    /\ UNCHANGED <<now, alert_optimizer, evaluated, committed,
                   telegram_configured, aux_vars, whale_tracker, coin_idx, cycle,
                   last_cleanup, pending, whale_txs, delivered, undelivered,
                   telegram_log>>

\* POST /api/stop-monitoring up to "await monitoring_task"; the request is
\* served while the task is suspended
StopRequest ==
    /\ pc \notin NotImported
    /\ monitoring_active => pc \in SuspensionPoints
    /\ IF monitoring_active
       THEN /\ monitoring_active' = FALSE
            /\ cancelled_tasks' = Append(cancelled_tasks, pc)
            /\ pc' = "idle"
            /\ coin_idx' = 0
            /\ whale_txs' = 0
            /\ pending' = NoPending
            /\ call' = [op |-> "stop_monitoring", status |-> "stopped"]
       ELSE /\ call' = [op |-> "stop_monitoring", status |-> "not_running"]
            /\ UNCHANGED <<monitoring_active, cancelled_tasks, pc, coin_idx,
                           whale_txs, pending>>
    /\ UNCHANGED <<now, alert_optimizer, evaluated, committed,
                   telegram_configured, alert_history, crypto_monitor, ao_optimizer,
                   whale_tracker, cycle, starts, last_cleanup, delivered,
                   undelivered, telegram_log>>

\* variant: CancelledError is caught by the except branch of the loop, and
\* the cancelled task goes on as the monitoring loop
Cancelled_caught ==
    /\ cancelled_tasks # <<>>
    /\ cancelled_tasks' = Tail(cancelled_tasks)
    /\ pc' = IF Head(cancelled_tasks) = "enter" THEN pc ELSE "backoff"
    /\ call' = [op |-> "cancelled", at |-> Head(cancelled_tasks)]
    /\ UNCHANGED <<now, alert_optimizer, evaluated, committed, loop_vars_but_pc,
                   alert_history, crypto_monitor, ao_optimizer>>

\* the event loop runs a cancelled task: CancelledError is raised at the
\* await the task stands at, no "except Exception" catches it, and the task
\* ends (a task cancelled before its first statement never runs)
Cancelled ==
    /\ cancelled_tasks # <<>>
    /\ cancelled_tasks' = Tail(cancelled_tasks)
    /\ pc' = pc
    /\ call' = [op |-> "cancelled", at |-> Head(cancelled_tasks)]
    /\ UNCHANGED <<now, alert_optimizer, evaluated, committed, loop_vars_but_pc,
                   alert_history, crypto_monitor, ao_optimizer>>

NextTasks ==
    \/ StartRequest
    \/ StopRequest
    \/ Cancelled
    \/ LoopEnter
    \/ LoopHead
    \/ /\ pc = "check"
       /\ \E d \in TaskMarkets(TRACKED_COINS[coin_idx]) : Scan(d)
    \/ \E suspended \in BOOLEAN : Dispatch(TRUE, 0, suspended)
    \/ SaveAlert
    \/ Pace
    \/ Cleanup
    \/ WhaleCheck(0)
    \/ Sleep(check_interval)
    \/ Backoff

SpecTasks == Init /\ [][NextTasks]_vars

----------------------------------------------------------------------------

(* The import of main.py: the whale_tracker module found on the path      *)
(* supplies WhaleAlertAPI and WhaleTracker ("complete"), lacks one of them *)
(* as src/whale_tracker.py does ("incomplete"), or cannot be imported      *)
(* ("absent"); the last two raise ImportError at the import statement      *)

WhaleModules == {"complete", "incomplete", "absent"}

ImportMain(whale_module) ==
    /\ pc = "import"
    /\ IF whale_module = "complete"
       THEN /\ whale_tracker' = TRUE
            /\ pc' = "idle"
            /\ call' = [op |-> "import", whale_module |-> whale_module,
                        WHALE_ENABLED |-> TRUE, error |-> "none"]
       ELSE \* the except branch sets WHALE_ENABLED and then reads the name
            \* logger, which is bound only after the try statement
            /\ pc' = "import_error"
            /\ call' = [op |-> "import", whale_module |-> whale_module,
                        WHALE_ENABLED |-> FALSE, error |-> "NameError"]
            /\ UNCHANGED whale_tracker
    /\ UNCHANGED <<now, alert_optimizer, evaluated, committed,
                   monitoring_active, telegram_configured, aux_vars, coin_idx,
                   cycle, starts, last_cleanup, pending, whale_txs, delivered,
                   undelivered, telegram_log>>

InitImport ==
    /\ GlobalsAt("import", FALSE)
    /\ telegram_configured = TRUE

NextStartup ==
    \/ \E whale_module \in WhaleModules : ImportMain(whale_module)
    \/ NextTasks

SpecStartup == InitImport /\ [][NextStartup]_vars

----------------------------------------------------------------------------

TraceCoin == "bitcoin"

TraceSnapshot == Snapshot(5000000, 200000000, 1, 60)

\* the instants of the trace: at the commit, within the cooldown of a
\* MEDIUM record, at its end and one second after
TraceClock == {0, 1, 1800, 3599, 3600, 3601}

TraceEvaluate(t) ==
    /\ t >= now
    /\ alert_optimizer.stats.total_checks < MaxTrace
    /\ now' = t
    /\ LET a == analyze_crypto(TraceSnapshot)
           r == should_send_alert(alert_optimizer, TraceCoin, a.alert_type,
                                  TraceSnapshot, a.priority, t)
           k == AlertKey(TraceCoin, a.alert_type)
       IN  /\ a.should_check
           /\ alert_optimizer' = r.self
           /\ call' = Call("should_send_alert", TraceCoin, a.alert_type,
                           TraceSnapshot, a.priority, 0, r.ret)
           /\ evaluated' = [evaluated EXCEPT ![k] = Outcome(@, r.ret)]
    /\ UNCHANGED committed
    /\ UNCHANGED <<loop_vars, aux_vars>>

\* the commit of the alert the last call approved
TraceCommit(t) ==
    /\ call.op = "should_send_alert"
    /\ call.approved
    /\ RecordAlert(t, call.coin_id, call.alert_type, call.crypto_data.price,
                   call.priority)

NextTrace ==
    \/ \E t \in TraceClock : TraceEvaluate(t)
    \/ \E t \in TraceClock : TraceCommit(t)

SpecTrace == Init /\ [][NextTrace]_vars

----------------------------------------------------------------------------
(* The optimizer with its maintenance calls: cleanup_old_alerts and *)
(* get_stats, after evaluations and commits                         *)

\* the instants of the calls: within the cooldowns, and a day later
AdminClock == {0, 1800, 86400}

AdminPriorities == {"HIGH", "LOW"}

\* the argument of cleanup_old_alerts: none kept, and the default
MaxAgeHours == {0, default_max_age_hours}

CleanupOldAlerts(t, max_age_hours) ==
    /\ t >= now
    /\ now' = t
    /\ alert_optimizer' = cleanup_old_alerts(alert_optimizer, max_age_hours, t)
    /\ call' = [op |-> "cleanup_old_alerts", max_age_hours |-> max_age_hours]
    /\ UNCHANGED <<evaluated, committed, loop_vars, aux_vars>>

GetStats ==
    /\ call' = [op |-> "get_stats", ret |-> get_stats(alert_optimizer)]
    /\ UNCHANGED <<now, alert_optimizer, evaluated, committed, loop_vars,
                   aux_vars>>

NextAdmin ==
    \/ \E t \in AdminClock, s \in LongSubjects :
          ShouldSendAlert(t, s[1], s[2], GoodSnapshot, None)
    \/ \E t \in AdminClock, s \in LongSubjects, p \in AdminPriorities :
          /\ alert_optimizer.stats.alerts_sent < MaxCommits
          /\ RecordAlert(t, s[1], s[2], 1, p)
    \/ \E t \in AdminClock, h \in MaxAgeHours : CleanupOldAlerts(t, h)
    \/ GetStats

SpecAdmin == Init /\ [][NextAdmin]_vars

----------------------------------------------------------------------------
(* check_and_alert as one call, on snapshots around the thresholds of *)
(* analyze_crypto                                                     *)

ScanChanges == {-21, -20, 0, 10, 11, 50, 51}

\* volume and market cap: a low volume; a volume of exactly half the cap
\* and exactly 100,000,000; a volume above 100,000,000 and exactly half the
\* cap; a volume above half the cap
ScanVolumes ==
    {<<5000000, 200000000>>, <<100000000, 200000000>>,
     <<100000001, 200000002>>, <<100000001, 200000000>>}

ScanSnapshots ==
    {Snapshot(v[1], v[2], 1, ch) : v \in ScanVolumes, ch \in ScanChanges}

ScanClock == {0, 1800}

\* the whole of check_and_alert for a snapshot that analyze_crypto can
\* compare; the clock reads t at should_send_alert, send_message answers ok
\* after lat seconds, and record_alert reads the clock after it
CheckAndAlertTimed(t, lat, coin_id, coin_data, ok) ==
    /\ t >= now
    /\ ok => telegram_configured
    /\ LET a == analyze_crypto(coin_data)
           r == should_send_alert(alert_optimizer, coin_id, a.alert_type,
                                  coin_data, a.priority, t)
           k == AlertKey(coin_id, a.alert_type)
           recorded == r.ret[1] /\ ok
           done == IF r.ret[1] THEN t + lat ELSE t
       IN  IF coin_data = NoCoinData \/ ~a.should_check
           THEN /\ now' = t
                /\ call' = [op |-> "check_and_alert", coin_id |-> coin_id,
                            crypto_data |-> coin_data, asked |-> FALSE,
                            alert_type |-> "", recorded |-> FALSE]
                /\ UNCHANGED <<alert_optimizer, evaluated, committed,
                               delivered, undelivered, telegram_log,
                               alert_history>>
           ELSE /\ now' = done
                /\ call' = [op |-> "check_and_alert", coin_id |-> coin_id,
                            crypto_data |-> coin_data, asked |-> TRUE,
                            alert_type |-> a.alert_type,
                            recorded |-> recorded]
                /\ alert_optimizer' =
                       IF recorded
                       THEN record_alert(r.self, coin_id, a.alert_type,
                                         coin_data.price, a.priority, done)
                       ELSE r.self
                /\ evaluated' = [evaluated EXCEPT ![k] =
                                    IF recorded THEN NotEvaluated
                                    ELSE Outcome(@, r.ret)]
                /\ committed' = IF recorded
                                THEN [committed EXCEPT ![k] =
                                         <<done, a.priority>>]
                                ELSE committed
                /\ delivered' = IF recorded
                                THEN [delivered EXCEPT ![k] =
                                         <<done, a.priority>>]
                                ELSE delivered
                /\ undelivered' = IF recorded THEN undelivered \ {k}
                                  ELSE IF r.ret[1] THEN undelivered \cup {k}
                                  ELSE undelivered
                /\ telegram_log' =
                       IF recorded
                       THEN Logged(telegram_log, Notification(done, TRUE))
                       ELSE telegram_log
                /\ alert_history' =
                       IF recorded
                       THEN Append(alert_history,
                                   AlertEntry(coin_id, a.alert_type,
                                              a.priority, coin_data.price))
                       ELSE alert_history
    /\ UNCHANGED <<monitoring_active, telegram_configured, whale_tracker, pc,
                   coin_idx, cycle, starts, last_cleanup, pending, whale_txs,
                   cancelled_tasks, crypto_monitor, ao_optimizer>>

\* check_and_alert with a send_message that takes no time
CheckAndAlert(t, coin_id, coin_data, ok) ==
    /\ alert_optimizer.stats.total_checks < MaxChecks
    /\ CheckAndAlertTimed(t, 0, coin_id, coin_data, ok)

NextScan ==
    \E t \in ScanClock, d \in ScanSnapshots \cup {NoCoinData},
       ok \in BOOLEAN : CheckAndAlert(t, "bitcoin", d, ok)

SpecScan == Init /\ [][NextScan]_vars

----------------------------------------------------------------------------
(* check_and_alert called as fast as its caller likes, for six alerts that *)
(* no cooldown holds back, around one rate window                          *)

PumpSnapshot == Snapshot(5000000, 200000000, 1, 60)

DropSnapshot == Snapshot(5000000, 200000000, 1, -30)

SpikeSnapshot == Snapshot(150000000, 200000000, 1, 0)

\* the coins and snapshots in the order the caller takes them: it goes on
\* to the next after every recorded alert
RateOrder ==
    <<<<"bitcoin", PumpSnapshot>>, <<"bitcoin", DropSnapshot>>,
      <<"bitcoin", SpikeSnapshot>>, <<"ethereum", PumpSnapshot>>,
      <<"ethereum", DropSnapshot>>, <<"ethereum", SpikeSnapshot>>>>

RateClock == {0, 20, 40, 59, 60, 70}

\* seconds send_message takes: none, or all of its 10-second timeout
RateLatency == {0, 10}

NextRate ==
    \E t \in RateClock, lat \in RateLatency, ok \in BOOLEAN :
       LET s == RateOrder[(alert_optimizer.stats.alerts_sent % Len(RateOrder)) + 1]
       IN  /\ alert_optimizer.stats.total_checks < MaxRate
           /\ CheckAndAlertTimed(t, lat, s[1], s[2], ok)

SpecRate == Init /\ [][NextRate]_vars

----------------------------------------------------------------------------
(* check_and_alert calls with requests to /api/alerts/reset-stats and *)
(* /api/alerts/stats between them                                     *)

\* the clock around two rate windows
ResetClock == {0, 30, 60, 90}

\* what the next check_and_alert is given: the coin and snapshot that follow
\* the last recorded alert in RateOrder, or a snapshot the filter refuses
ResetSubjects ==
    {RateOrder[(Len(alert_history) % Len(RateOrder)) + 1],
     <<"bitcoin", LowVolumeSnapshot>>}

\* reset_alert_stats
ResetStats ==
    /\ alert_optimizer' = reset_stats(alert_optimizer)
    /\ call' = [op |-> "reset_stats"]
    /\ UNCHANGED <<now, evaluated, committed, loop_vars, aux_vars>>

NextReset ==
    \/ \E t \in ResetClock, s \in ResetSubjects, ok \in BOOLEAN :
          /\ alert_optimizer.stats.total_checks < MaxChecks
          /\ CheckAndAlertTimed(t, 0, s[1], s[2], ok)
    \/ ResetStats
    \/ GetStats

SpecReset == Init /\ [][NextReset]_vars

----------------------------------------------------------------------------
(* The functions that read no state, applied to arguments of every kind *)

\* a dict without one of its keys

Without(d, key) == [x \in DOMAIN d \ {key} |-> d[x]]

PriorityChanges == {-150, -101, -100, -75, -50, 0, 50, 51, 75, 100, 101, 150}

PriorityCaps == {500000, 1000000000, 1000000001, 2000000000}

\* snapshots around the thresholds of the classifier, and one that lacks
\* the keys it reads
PrioritySnapshots ==
    {Snapshot(5000000, c, 1, ch) : c \in PriorityCaps, ch \in PriorityChanges}
        \cup {Without(Without(GoodSnapshot, "change24h"), "marketCap")}

FilterVolumes == {0, 999999, 1000000, 5000000}

FilterCaps == {0, 9999999, 10000000, 200000000}

FilterPrices == {-1, 0, 1}

\* snapshots around the thresholds of the filter, and those that lack one
\* of the keys it reads
FilterSnapshots ==
    LET full == {Snapshot(v, c, p, 60) :
                    v \in FilterVolumes, c \in FilterCaps, p \in FilterPrices}
    IN  full \cup {Without(GoodSnapshot, k) :
                       k \in {"volume24h", "marketCap", "price"}}

GetPriority(alert_type, crypto_data) ==
    /\ call' = [op |-> "get_priority", alert_type |-> alert_type,
                crypto_data |-> crypto_data,
                ret |-> get_priority(alert_type, crypto_data)]
    /\ UNCHANGED <<now, alert_optimizer, evaluated, committed, loop_vars,
                   aux_vars>>

CheckFilters(crypto_data) ==
    /\ call' = [op |-> "_check_filters", crypto_data |-> crypto_data,
                ret |-> _check_filters(crypto_data)]
    /\ UNCHANGED <<now, alert_optimizer, evaluated, committed, loop_vars,
                   aux_vars>>

NextPure ==
    \/ \E a \in AlertType, d \in PrioritySnapshots : GetPriority(a, d)
    \/ \E d \in FilterSnapshots : CheckFilters(d)

SpecPure == Init /\ [][NextPure]_vars

----------------------------------------------------------------------------
(* The two AlertOptimizer classes side by side: every call is made on the *)
(* instance of main.py and on the instance of alert_optimizer.py, with    *)
(* the same arguments, of alert types both modules define, and the same   *)
(* clock reading                                                           *)

TwinClock == {0, 60, 1800}

\* an alert type and a snapshot for each rule of get_priority, on both
\* sides of its threshold
TwinPriorityInputs ==
    {<<"WHALE", QuietSnapshot>>, <<"VOLUME_SPIKE", QuietSnapshot>>,
     <<"PRICE_DROP", Snapshot(5000000, 200000000, 1, -101)>>,
     <<"PUMP", Snapshot(5000000, 200000000, 1, -101)>>,
     <<"PUMP", Snapshot(5000000, 200000000, 1, 101)>>,
     <<"PUMP", Snapshot(5000000, 200000000, 1, 100)>>,
     <<"PUMP", Snapshot(5000000, 200000000, 1, 51)>>,
     <<"PUMP", Snapshot(5000000, 200000000, 1, 50)>>,
     <<"STRONG_BUY", Snapshot(5000000, 1000000001, 1, 0)>>,
     <<"STRONG_BUY", Snapshot(5000000, 1000000000, 1, 0)>>}

TwinShouldSendAlert(t, coin_id, alert_type, crypto_data, priority) ==
    /\ t >= now
    /\ alert_optimizer.stats.total_checks < MaxChecks
    /\ now' = t
    /\ LET r == should_send_alert(alert_optimizer, coin_id, alert_type,
                                  crypto_data, priority, t)
           ao == ao_should_send_alert(ao_optimizer, coin_id, alert_type,
                                      crypto_data, priority, t)
       IN  /\ alert_optimizer' = r.self
           /\ ao_optimizer' = ao.self
           /\ call' = [op |-> "twin_should_send_alert",
                       approved |-> r.ret[1], reason |-> r.ret[2].text,
                       ao_approved |-> ao.ret[1]]
    /\ UNCHANGED <<evaluated, committed, loop_vars, alert_history,
                   cancelled_tasks, crypto_monitor>>

TwinRecordAlert(t, coin_id, alert_type, price, priority) ==
    /\ t >= now
    /\ Len(alert_optimizer.alerts_sent_minute) < MaxBurst
    /\ now' = t
    /\ alert_optimizer' = record_alert(alert_optimizer, coin_id, alert_type,
                                       price, priority, t)
    /\ ao_optimizer' = ao_record_alert(ao_optimizer, coin_id, alert_type,
                                       price, priority, t)
    /\ call' = [op |-> "twin_record_alert"]
    /\ UNCHANGED <<evaluated, committed, loop_vars, alert_history,
                   cancelled_tasks, crypto_monitor>>

TwinCleanupOldAlerts(t, max_age_hours) ==
    /\ t >= now
    /\ now' = t
    /\ alert_optimizer' = cleanup_old_alerts(alert_optimizer, max_age_hours, t)
    /\ ao_optimizer' = ao_cleanup_old_alerts(ao_optimizer, max_age_hours, t)
    /\ call' = [op |-> "twin_cleanup_old_alerts"]
    /\ UNCHANGED <<evaluated, committed, loop_vars, alert_history,
                   cancelled_tasks, crypto_monitor>>

TwinResetStats ==
    /\ alert_optimizer' = reset_stats(alert_optimizer)
    /\ ao_optimizer' = ao_reset_stats(ao_optimizer)
    /\ call' = [op |-> "twin_reset_stats"]
    /\ UNCHANGED <<now, evaluated, committed, loop_vars, alert_history,
                   cancelled_tasks, crypto_monitor>>

TwinGetPriority(alert_type, crypto_data) ==
    /\ alert_type \in AlertType \cap ao_AlertType
    /\ call' = [op |-> "twin_get_priority",
                ret |-> get_priority(alert_type, crypto_data),
                ao_ret |-> ao_get_priority(alert_type, crypto_data)]
    /\ UNCHANGED <<now, alert_optimizer, evaluated, committed, loop_vars,
                   aux_vars>>

NextTwin ==
    \/ \E t \in TwinClock, s \in BurstSubjects, d \in LongSnapshots,
          p \in CallerPriorities :
          TwinShouldSendAlert(t, s[1], s[2], d, p)
    \/ \E t \in TwinClock, s \in BurstCommits, p \in AdminPriorities :
          TwinRecordAlert(t, s[1], s[2], 1, p)
    \/ \E t \in TwinClock, h \in MaxAgeHours : TwinCleanupOldAlerts(t, h)
    \/ TwinResetStats
    \/ \E i \in TwinPriorityInputs : TwinGetPriority(i[1], i[2])

SpecTwin == Init /\ [][NextTwin]_vars

----------------------------------------------------------------------------
(* CryptoMonitor.check_price_changes on successive samples *)

\* the orders of the coins of a sample: a coin with a threshold of its own
\* and one with the default threshold
MonitorItems ==
    {<<"bitcoin">>, <<"cardano">>, <<"bitcoin", "cardano">>,
     <<"cardano", "bitcoin">>}

\* prices around a change of 5 and of 10 percent from 100, and 0
MonitorPrices == {0, 100, 104, 105, 109, 110}

CheckPriceChanges(items, current_prices) ==
    /\ LET r == check_price_changes(crypto_monitor, items, current_prices)
       IN  /\ crypto_monitor' = r.self
           /\ call' = [op |-> "check_price_changes", items |-> items,
                       current_prices |-> current_prices,
                       alerts |-> r.alerts, raised |-> r.raised]
    /\ UNCHANGED <<now, alert_optimizer, evaluated, committed, loop_vars,
                   alert_history, cancelled_tasks, ao_optimizer>>

NextMonitor ==
    \E items \in MonitorItems :
       \E current_prices \in [{items[i] : i \in 1..Len(items)} -> MonitorPrices] :
          CheckPriceChanges(items, current_prices)

SpecMonitor == Init /\ [][NextMonitor]_vars

----------------------------------------------------------------------------
(* What the specification says of one evaluation, stated on the state *)
(* before the call and the clock at the call                          *)

(* The optimizer asked about pairs whose keys could run into each other *)

NextKeys ==
    \/ \E t \in KeyClock, s \in KeySubjects, d \in KeySnapshots :
          ShouldSendAlert(t, s[1], s[2], d, None)
    \/ \E t \in KeyClock, s \in KeySubjects :
          /\ alert_optimizer.stats.alerts_sent < MaxCommits
          /\ RecordAlert(t, s[1], s[2], 1, "MEDIUM")

SpecKeys == Init /\ [][NextKeys]_vars

----------------------------------------------------------------------------

RateLimitText == "Rate limit raggiunto"

CooldownText == "Cooldown attivo"

ApprovedText == "Alert approvato"

\* the recorded timestamps that lie in the trailing 60 seconds at time t
RecentCount(window, t) ==
    Cardinality({i \in 1..Len(window) : t - window[i] < 60})

\* the reason of the first quality threshold a snapshot misses, "" if none
FirstFailedFilter(d) ==
    IF d.volume24h < 1000000 THEN "Volume basso"
    ELSE IF d.marketCap < 10000000 THEN "Market cap basso"
    ELSE IF d.price <= 0 THEN "Prezzo non valido"
    ELSE ""

Duration(priority) ==
    CASE priority = "HIGH"   -> 1800
      [] priority = "MEDIUM" -> 3600
      [] priority = "LOW"    -> 7200

\* the key has a stored record whose cooldown has time left at t
Suppressed(history, k, t) ==
    /\ k \in DOMAIN history
    /\ Duration(history[k].priority) - (t - history[k].timestamp) > 0

\* the step is an evaluation (a should_send_alert call)
IsEvaluation == call'.op = "should_send_alert"

IsCommit == call'.op = "record_alert"

CallKey(c) == AlertKey(c.coin_id, c.alert_type)

\* the outcome the fixed order of checks prescribes for the evaluation
ExpectedOutcome ==
    IF RecentCount(alert_optimizer.alerts_sent_minute, now') >= 5
    THEN "rate_limit"
    ELSE IF FirstFailedFilter(call'.crypto_data) # ""
    THEN "filter"
    ELSE IF Suppressed(alert_optimizer.alert_history, CallKey(call'), now')
    THEN "cooldown"
    ELSE "approved"

\* C1: an evaluation applies rate limit, quality filter and cooldown in
\* this order and stops at the first that fails: with the rate limit
\* reached the result is (False, rate limit) whatever the snapshot and the
\* cooldown; with the limit free and the filter failing it is the filter's
\* reason whatever the cooldown; it is (True, approved) only when all pass.
C1_CheckOrder ==
    [][IsEvaluation =>
        /\ ExpectedOutcome = "rate_limit" =>
              /\ ~call'.approved
              /\ call'.reason.text = RateLimitText
        /\ ExpectedOutcome = "filter" =>
              /\ ~call'.approved
              /\ call'.reason.text = FirstFailedFilter(call'.crypto_data)
        /\ ExpectedOutcome = "cooldown" =>
              /\ ~call'.approved
              /\ call'.reason.text = CooldownText
        /\ call'.approved <=> ExpectedOutcome = "approved"
        /\ call'.approved => call'.reason.text = ApprovedText]_vars

\* an evaluation refused for the rate limit although its snapshot fails the
\* filter and its key is in cooldown
C1_Witness ==
    /\ call.op = "should_send_alert"
    /\ call.reason.text = RateLimitText
    /\ FirstFailedFilter(call.crypto_data) # ""
    /\ Suppressed(alert_optimizer.alert_history, CallKey(call), now)

\* C2: the rate limiter refuses an evaluation iff at least
\* max_alerts_per_minute (5) recorded timestamps are less than 60 seconds
\* old at the call: the call after 5 commits within 60 seconds is refused,
\* and once the oldest is 60 seconds old the limiter admits again.
C2_RateLimit ==
    [][IsEvaluation =>
        (call'.reason.text = RateLimitText
            <=> RecentCount(alert_optimizer.alerts_sent_minute, now') >= 5)]_vars

\* an evaluation admitted by the limiter after an earlier one was refused
\* with 5 commits in the window
C2_Witness ==
    /\ call.op = "should_send_alert"
    /\ call.reason.text # RateLimitText
    /\ alert_optimizer.stats.alerts_blocked_rate_limit = 1
    /\ alert_optimizer.stats.alerts_sent = 5
    /\ Len(alert_optimizer.alerts_sent_minute) < 5

\* C3: an evaluation that reaches the cooldown check is suppressed iff less
\* than the cooldown of the priority of the last commit for the key has
\* passed since that commit, whatever priority the evaluation passes.
C3_StoredPriority ==
    [][(/\ IsEvaluation
        /\ committed[CallKey(call')] # <<>>
        /\ RecentCount(alert_optimizer.alerts_sent_minute, now') < 5
        /\ FirstFailedFilter(call'.crypto_data) = "") =>
        LET c == committed[CallKey(call')]
        IN  /\ now' - c[1] < Duration(c[2]) =>
                  /\ ~call'.approved
                  /\ call'.reason.text = CooldownText
            /\ now' - c[1] >= Duration(c[2]) => call'.approved]_vars

\* after two commits for a key, the later one with MEDIUM, an evaluation
\* passing HIGH is still suppressed 1800 s after the later commit
C3_Witness ==
    /\ call.op = "should_send_alert"
    /\ call.priority = "HIGH"
    /\ call.reason.text = CooldownText
    /\ alert_optimizer.stats.alerts_sent = 2
    /\ committed[CallKey(call)] # <<>>
    /\ committed[CallKey(call)][2] = "MEDIUM"
    /\ now - committed[CallKey(call)][1] >= 1800
    /\ \A k \in Keys \ {CallKey(call)} : committed[k] = <<>>

\* C4: an evaluation leaves the cooldown store unchanged and adds no
\* timestamp to the rate window; all it may do to the window is drop
\* timestamps that are 60 seconds old or older.
C4_EvaluationFrame ==
    [][IsEvaluation =>
        LET w == alert_optimizer.alerts_sent_minute
        IN  /\ alert_optimizer'.alert_history = alert_optimizer.alert_history
            /\ \E n \in 0..Len(w) :
                  /\ alert_optimizer'.alerts_sent_minute = SubSeq(w, n + 1, Len(w))
                  /\ \A i \in 1..n : now' - w[i] >= 60]_vars

\* an approved evaluation that dropped old timestamps, kept a young one and
\* found a record in the store
C4_Witness ==
    /\ call.op = "should_send_alert"
    /\ call.approved
    /\ alert_optimizer.alert_history # EmptyDict
    /\ Len(alert_optimizer.alerts_sent_minute) > 0
    /\ Len(alert_optimizer.alerts_sent_minute) < alert_optimizer.stats.alerts_sent

\* C8: an evaluation adds 1 to total_checks, adds 1 to the blocked counter
\* of the check that refused it and to no other counter, and adds nothing
\* else when it approves; alerts_sent grows only in a commit.
C8_Counters ==
    [][LET old == alert_optimizer.stats
           new == alert_optimizer'.stats
           Plus(outcome) == IF ExpectedOutcome = outcome THEN 1 ELSE 0
       IN  /\ IsEvaluation =>
                /\ new.total_checks = old.total_checks + 1
                /\ new.alerts_blocked_rate_limit =
                       old.alerts_blocked_rate_limit + Plus("rate_limit")
                /\ new.alerts_blocked_filters =
                       old.alerts_blocked_filters + Plus("filter")
                /\ new.alerts_blocked_cooldown =
                       old.alerts_blocked_cooldown + Plus("cooldown")
                /\ new.alerts_sent = old.alerts_sent
           /\ new.alerts_sent > old.alerts_sent => IsCommit]_vars

\* two evaluations made, one refused by the filter and one by the rate limit
C8_Witness ==
    /\ call.op = "should_send_alert"
    /\ alert_optimizer.stats.total_checks = 2
    /\ alert_optimizer.stats.alerts_blocked_rate_limit = 1
    /\ alert_optimizer.stats.alerts_blocked_filters = 1
    /\ alert_optimizer.stats.alerts_blocked_cooldown = 0

\* C9 as stated: once an evaluation of a key was not blocked by cooldown,
\* no later evaluation of the key is blocked by cooldown until a commit
\* for the key.
C9_AsStated ==
    [][(IsEvaluation /\ evaluated[CallKey(call')].best # "none") =>
        call'.reason.text # CooldownText]_vars

\* C9 amended: once an evaluation of a key was approved, no later
\* evaluation of the key is blocked by cooldown until a commit for the key.
C9_AfterApproval ==
    [][(IsEvaluation /\ evaluated[CallKey(call')].best = "approved") =>
        call'.reason.text # CooldownText]_vars

\* two evaluations of a key in a row, both approved, with no commit in
\* between, for a key whose stored record has run out
C9_Witness ==
    /\ call.op = "should_send_alert"
    /\ call.approved
    /\ evaluated[CallKey(call)].calls = 2
    /\ alert_optimizer.stats.total_checks = 2
    /\ alert_optimizer.stats.alerts_blocked_cooldown = 0
    /\ alert_optimizer.stats.alerts_blocked_filters = 0
    /\ alert_optimizer.stats.alerts_blocked_rate_limit = 0
    /\ CallKey(call) \in DOMAIN alert_optimizer.alert_history

\* C10: an evaluation that passes the rate limit and the filter is blocked
\* by cooldown iff a record is stored for its key and
\* cooldown(record.priority) - (now - record.timestamp) > 0; without a
\* record, and from exactly cooldown seconds after the commit on, it is
\* approved.
C10_CooldownRule ==
    [][(/\ IsEvaluation
        /\ RecentCount(alert_optimizer.alerts_sent_minute, now') < 5
        /\ FirstFailedFilter(call'.crypto_data) = "") =>
        LET h == alert_optimizer.alert_history
            k == CallKey(call')
        IN  /\ call'.reason.text = CooldownText <=> Suppressed(h, k, now')
            /\ k \notin DOMAIN h => call'.approved
            /\ (k \in DOMAIN h
                   /\ now' - h[k].timestamp = Duration(h[k].priority)) =>
                  call'.approved]_vars

\* an evaluation approved exactly cooldown seconds after the commit
C10_Witness ==
    /\ call.op = "should_send_alert"
    /\ call.approved
    /\ CallKey(call) \in DOMAIN alert_optimizer.alert_history
    /\ LET r == alert_optimizer.alert_history[CallKey(call)]
       IN  now - r.timestamp = Duration(r.priority)

----------------------------------------------------------------------------
(* What the specification says of the monitoring task *)

PendingKey == AlertKey(pending.coin_id, pending.alert_type)

\* the step is a dispatch of check_and_alert whose send_message failed
IsFailedDispatch ==
    /\ pc = "dispatch"
    /\ pc' = "pace"
    /\ PendingKey \in undelivered'

\* C5: when send_message reports failure after an approved evaluation,
\* record_alert is not called: the cooldown store, the rate window and the
\* counters are what they were before the attempt, and an evaluation of the
\* same alert right after the failure is approved again.
C5_FailedDispatch ==
    [][IsFailedDispatch =>
        /\ alert_optimizer' = alert_optimizer
        /\ call'.op # "record_alert"
        /\ should_send_alert(alert_optimizer', pending.coin_id,
                             pending.alert_type, pending.crypto_data,
                             pending.priority, now').ret[1]]_vars

\* the second cycle approved the alert whose dispatch failed in the first
C5_Witness ==
    /\ pc = "dispatch"
    /\ cycle = 2
    /\ PendingKey \in undelivered
    /\ delivered[PendingKey] = <<>>
    /\ alert_optimizer.stats.alerts_sent = 0
    /\ alert_optimizer.stats.total_checks = 2

\* C6: in the monitoring loop, a confirmed dispatch for a (coin, alert type)
\* pair comes no sooner after the previous confirmed dispatch for the pair
\* than the cooldown of the previous dispatch's priority (1800 s HIGH,
\* 3600 s MEDIUM, 7200 s LOW).
C6_DispatchSpacing ==
    [][\A k \in Keys :
        (delivered[k] # <<>> /\ delivered'[k] # delivered[k]) =>
            delivered'[k][1] - delivered[k][1] >= Duration(delivered[k][2])]_vars

\* a second confirmed dispatch for bitcoin PUMP, right when the cooldown of
\* the first (HIGH) ran out
C6_Witness ==
    /\ alert_optimizer.stats.alerts_sent = 2
    /\ delivered[AlertKey("bitcoin", "PUMP")] # <<>>
    /\ delivered[AlertKey("bitcoin", "PUMP")][1] = 1800
    /\ Len(telegram_log) >= 2
    /\ \E i \in 1..Len(telegram_log) :
          telegram_log[i].gated /\ telegram_log[i].t = 0

\* C7 as stated: every notification the dispatcher confirmed was approved by
\* should_send_alert and recorded by record_alert, and no
\* max_alerts_per_minute + 1 confirmed notifications lie within 60 seconds.
C7_AllNotificationsGated ==
    /\ \A i \in 1..Len(telegram_log) : telegram_log[i].gated
    /\ Len(telegram_log) > max_alerts_per_minute =>
           telegram_log[Len(telegram_log)].t - telegram_log[1].t
               >= RateWindowSeconds

----------------------------------------------------------------------------
(* What the specification says of one commit *)

\* C11: record_alert(coin, type, price, priority) stores under the key of
\* (coin, type) one record with the given priority and price and the
\* current time, replacing the record of that key if there is one and
\* leaving the records of the other keys as they were; it appends exactly
\* one timestamp to the rate window and adds exactly 1 to alerts_sent,
\* leaving the other counters as they were.
C11_CommitFrame ==
    [][IsCommit =>
        LET k == CallKey(call')
            old == alert_optimizer
            new == alert_optimizer'
        IN  /\ DOMAIN new.alert_history = DOMAIN old.alert_history \cup {k}
            /\ new.alert_history[k] =
                   [coin_id |-> call'.coin_id, alert_type |-> call'.alert_type,
                    timestamp |-> now', price |-> call'.price,
                    priority |-> call'.priority]
            /\ \A j \in DOMAIN old.alert_history \ {k} :
                   new.alert_history[j] = old.alert_history[j]
            /\ new.alerts_sent_minute = Append(old.alerts_sent_minute, now')
            /\ new.stats.alerts_sent = old.stats.alerts_sent + 1
            /\ new.stats.total_checks = old.stats.total_checks
            /\ new.stats.alerts_blocked_cooldown =
                   old.stats.alerts_blocked_cooldown
            /\ new.stats.alerts_blocked_filters =
                   old.stats.alerts_blocked_filters
            /\ new.stats.alerts_blocked_rate_limit =
                   old.stats.alerts_blocked_rate_limit]_vars

\* a second commit of a key, later than the first and with another
\* priority, replaced the record of the key
C11_Witness ==
    /\ call.op = "record_alert"
    /\ alert_optimizer.stats.alerts_sent = 2
    /\ DOMAIN alert_optimizer.alert_history = {CallKey(call)}
    /\ alert_optimizer.alert_history[CallKey(call)].timestamp = now
    /\ alert_optimizer.alert_history[CallKey(call)].priority = "LOW"
    /\ Len(alert_optimizer.alerts_sent_minute) = 2
    /\ alert_optimizer.alerts_sent_minute[1] < now

----------------------------------------------------------------------------
(* What the specification says of the classifier and of the filter *)

\* the magnitude of the 24 h change of a snapshot, 0 if it has none
Magnitude(d) ==
    LET ch == IF "change24h" \in DOMAIN d THEN d.change24h ELSE 0
    IN  IF ch < 0 THEN 0 - ch ELSE ch

Cap(d) == IF "marketCap" \in DOMAIN d THEN d.marketCap ELSE 0

IsHigh(kind, d) ==
    \/ kind = "WHALE"
    \/ kind = "PUMP" /\ Magnitude(d) > 100
    \/ kind = "STRONG_BUY" /\ Cap(d) > 1000000000

IsMedium(kind, d) ==
    /\ ~IsHigh(kind, d)
    /\ \/ kind = "STRONG_BUY"
       \/ kind = "PUMP" /\ Magnitude(d) > 50
       \/ kind = "VOLUME_SPIKE"

\* C13: get_priority(kind, snapshot) is the result of the ordered rules,
\* first match wins: WHALE is HIGH; PUMP with |change24h| > 100 is HIGH;
\* STRONG_BUY with marketCap > 1,000,000,000 is HIGH; any other STRONG_BUY
\* is MEDIUM; PUMP with |change24h| > 50 is MEDIUM; VOLUME_SPIKE is MEDIUM;
\* everything else, every PRICE_DROP included, is LOW.
C13_Classifier ==
    call.op = "get_priority" =>
        call.ret = IF IsHigh(call.alert_type, call.crypto_data) THEN "HIGH"
                   ELSE IF IsMedium(call.alert_type, call.crypto_data)
                   THEN "MEDIUM"
                   ELSE "LOW"

\* a PUMP with a change of 150 was classified HIGH
C13_Witness ==
    /\ call.op = "get_priority"
    /\ call.alert_type = "PUMP"
    /\ "change24h" \in DOMAIN call.crypto_data
    /\ call.crypto_data.change24h = 150
    /\ call.ret = "HIGH"

\* C14: the thresholds of the classifier are strict and apply to the
\* absolute value of change24h: a PUMP with |change24h| in (50, 100], 100
\* included, is MEDIUM; a PUMP with |change24h| of 50 or less is LOW; a PUMP
\* with change24h = -150 is HIGH; a STRONG_BUY with marketCap exactly
\* 1,000,000,000 is MEDIUM.
C14_StrictThresholds ==
    call.op = "get_priority" =>
        LET m == Magnitude(call.crypto_data)
        IN  /\ (call.alert_type = "PUMP" /\ m > 50 /\ m <= 100) =>
                   call.ret = "MEDIUM"
            /\ (call.alert_type = "PUMP" /\ m <= 50) => call.ret = "LOW"
            /\ (call.alert_type = "PUMP" /\ m > 100) => call.ret = "HIGH"
            /\ (call.alert_type = "STRONG_BUY"
                    /\ Cap(call.crypto_data) = 1000000000) =>
                   call.ret = "MEDIUM"

\* a PUMP with a change of -150 was classified HIGH
C14_Witness ==
    /\ call.op = "get_priority"
    /\ call.alert_type = "PUMP"
    /\ "change24h" \in DOMAIN call.crypto_data
    /\ call.crypto_data.change24h = -150
    /\ call.ret = "HIGH"

\* the value a snapshot has for a field, 0 if it lacks the field
Field(d, key) == IF key \in DOMAIN d THEN d[key] ELSE 0

\* C15 as stated: _check_filters tests volume, then market cap, then price
\* and returns at the first failure with a reason that names the failed
\* threshold and carries the offending value: a volume below the minimum
\* fails with the volume reason and the volume, whatever the market cap and
\* the price; with enough volume, a market cap below the minimum fails
\* with the market cap reason and the market cap, whatever the price.
C15_ReasonWithValue ==
    call.op = "_check_filters" =>
        LET d == call.crypto_data
        IN  /\ Field(d, "volume24h") < 1000000 =>
                   /\ ~call.ret[1]
                   /\ call.ret[2].text = "Volume basso"
                   /\ call.ret[2].args = <<Field(d, "volume24h")>>
            /\ (Field(d, "volume24h") >= 1000000
                    /\ Field(d, "marketCap") < 10000000) =>
                   /\ ~call.ret[1]
                   /\ call.ret[2].text = "Market cap basso"
                   /\ call.ret[2].args = <<Field(d, "marketCap")>>

\* C16: _check_filters passes iff volume24h >= 1,000,000 and
\* marketCap >= 10,000,000 and price > 0, a missing field counting as 0: a
\* snapshot exactly at the volume or market cap minimum passes, a price of
\* exactly 0 fails.
C16_FilterPasses ==
    call.op = "_check_filters" =>
        LET d == call.crypto_data
        IN  call.ret[1] <=> /\ Field(d, "volume24h") >= 1000000
                            /\ Field(d, "marketCap") >= 10000000
                            /\ Field(d, "price") > 0

\* a snapshot exactly at both minima passed
C16_Witness ==
    /\ call.op = "_check_filters"
    /\ call.ret[1]
    /\ DOMAIN call.crypto_data
           = {"volume24h", "marketCap", "price", "change24h"}
    /\ call.crypto_data.volume24h = 1000000
    /\ call.crypto_data.marketCap = 10000000

----------------------------------------------------------------------------
(* What the specification says of an alert followed end to end *)

\* C17: on a fresh optimizer, for a PUMP with snapshot {volume24h = 5e6,
\* marketCap = 2e8, change24h = 60}, the classifier gives MEDIUM and the
\* first evaluation is approved; after record_alert with that priority,
\* every evaluation of the key less than 3600 s after the commit is refused
\* with the cooldown reason, whose minutes are those of (3600 - elapsed)
\* seconds, 60.0 right after the commit; an evaluation 3601 s after the
\* commit is approved again.
C17_EndToEnd ==
    [][IsEvaluation =>
        LET k == CallKey(call')
            history == alert_optimizer.alert_history
            elapsed == now' - history[k].timestamp
            tenths == call'.reason.args[1]
        IN  /\ call'.alert_type = "PUMP"
            /\ call'.priority = "MEDIUM"
            /\ DOMAIN history = {} => call'.approved
            /\ (k \in DOMAIN history /\ elapsed < 3600) =>
                   /\ ~call'.approved
                   /\ call'.reason.text = CooldownText
                   /\ 6 * tenths - (3600 - elapsed) \in -3..3
                   /\ elapsed = 0 => tenths = 600
            /\ (k \in DOMAIN history /\ elapsed >= 3601) =>
                   call'.approved]_vars

\* approved, committed, refused within the cooldown, and approved 3601 s
\* after the commit
C17_Witness ==
    /\ call.op = "should_send_alert"
    /\ call.approved
    /\ alert_optimizer.stats.total_checks = 3
    /\ alert_optimizer.stats.alerts_sent = 1
    /\ alert_optimizer.stats.alerts_blocked_cooldown = 1
    /\ committed[CallKey(call)] # <<>>
    /\ now - committed[CallKey(call)][1] = 3601

----------------------------------------------------------------------------
(* What the specification says of the maintenance calls *)

\* C18: cleanup_old_alerts(max_age_hours = 0) leaves the cooldown store
\* empty, whatever records it held and whether or not their cooldown had
\* run out, so that active_cooldowns is 0 and no key is suppressed
\* afterwards.
C18_CleanupZero ==
    [][(call'.op = "cleanup_old_alerts" /\ call'.max_age_hours = 0) =>
        /\ DOMAIN alert_optimizer'.alert_history = {}
        /\ get_stats(alert_optimizer').active_cooldowns = 0
        /\ \A s \in LongSubjects :
              should_send_alert(alert_optimizer', s[1], s[2], GoodSnapshot,
                                None, now').ret[2].text # CooldownText]_vars

\* a cleanup with 0 emptied a store that held a record committed at this
\* very instant, its cooldown not yet begun to run
C18_Witness ==
    /\ call.op = "cleanup_old_alerts"
    /\ call.max_age_hours = 0
    /\ DOMAIN alert_optimizer.alert_history = {}
    /\ \E k \in Keys : committed[k] # <<>> /\ committed[k][1] = now
    /\ alert_optimizer.stats.alerts_sent = 2
    /\ Len(alert_optimizer.alerts_sent_minute) = 2
    /\ alert_optimizer.alerts_sent_minute[1] = alert_optimizer.alerts_sent_minute[2]

\* C19 as stated: get_stats returns success_rate = 0 when total_checks is
\* 0, and success_rate = alerts_sent / total_checks otherwise.
C19_SuccessRate ==
    call.op = "get_stats" =>
        LET r == call.ret
        IN  /\ r.total_checks = 0 =>
                   r.success_rate = [num |-> 0, den |-> 1]
            /\ r.total_checks > 0 =>
                   r.success_rate.num * r.total_checks
                       = r.alerts_sent * r.success_rate.den

----------------------------------------------------------------------------
(* What the specification says of the proposal of a condition *)

\* the condition the ordered rules propose for a snapshot, "" if none
Proposed(d) ==
    LET ch == Field(d, "change24h")
        v == Field(d, "volume24h")
        c == Field(d, "marketCap")
    IN  IF ch > 50 THEN "PUMP"
        ELSE IF 2 * v > c THEN "VOLUME_SPIKE"
        ELSE IF ch < -20 THEN "PRICE_DROP"
        ELSE IF ch > 10 /\ v > 100000000 THEN "STRONG_BUY"
        ELSE ""

\* C20: analyze_crypto proposes at most one condition per snapshot, by
\* ordered rules, first match wins: change24h > 50 is PUMP; else
\* volume24h > 0.5 * marketCap is VOLUME_SPIKE; else change24h < -20 is
\* PRICE_DROP; else change24h > 10 and volume24h > 100,000,000 is
\* STRONG_BUY; otherwise none is proposed and check_and_alert does not call
\* should_send_alert, so that total_checks (and the whole optimizer) is as
\* before.
C20_Proposal ==
    [][(call'.op = "check_and_alert" /\ call'.crypto_data # NoCoinData) =>
        IF Proposed(call'.crypto_data) = ""
        THEN /\ ~call'.asked
             /\ alert_optimizer' = alert_optimizer
        ELSE /\ call'.asked
             /\ call'.alert_type = Proposed(call'.crypto_data)
             /\ alert_optimizer'.stats.total_checks =
                    alert_optimizer.stats.total_checks + 1]_vars

\* after one evaluation, a snapshot with a change of exactly 50 and a
\* volume of exactly half the market cap proposed nothing
C20_Witness ==
    /\ call.op = "check_and_alert"
    /\ call.crypto_data # NoCoinData
    /\ ~call.asked
    /\ call.crypto_data.change24h = 50
    /\ call.crypto_data.volume24h = 100000000
    /\ call.crypto_data.marketCap = 200000000
    /\ alert_optimizer.stats.total_checks = 1

----------------------------------------------------------------------------
\* the stored records of a (coin, alert type) pair whose cooldown has time
\* left at t
ActiveRecords(history, coin_id, alert_type, t) ==
    {k \in DOMAIN history :
        /\ history[k].coin_id = coin_id
        /\ history[k].alert_type = alert_type
        /\ Duration(history[k].priority) - (t - history[k].timestamp) > 0}

\* C21: the cooldown key depends on (coin id, alert type) only and is
\* injective on them: no other pair has the key of the pair of a call, and
\* an evaluation that passes the filter is suppressed exactly when a record of its own
\* pair has cooldown left, whatever the snapshot and whatever is stored
\* for other coins or other alert types.
C21_KeyInjective ==
    [][/\ IsEvaluation \/ IsCommit
             => \A c \in KeyCoins, a \in AlertType :
                   AlertKey(c, a) = CallKey(call')
                      => c = call'.coin_id /\ a = call'.alert_type
       /\ IsEvaluation /\ FirstFailedFilter(call'.crypto_data) = ""
             => ((call'.reason.text = CooldownText)
                    <=> ActiveRecords(alert_optimizer.alert_history,
                                      call'.coin_id, call'.alert_type,
                                      now') # {})]_vars

\* an alert for bitcoin PRICE_DROP is approved while a record of another
\* pair that shares its coin is in its cooldown
C21_Witness ==
    /\ call.op = "should_send_alert"
    /\ call.approved
    /\ call.coin_id = "bitcoin"
    /\ call.alert_type = "PRICE_DROP"
    /\ \E k \in DOMAIN alert_optimizer.alert_history :
          LET r == alert_optimizer.alert_history[k]
          IN  /\ r.coin_id = "bitcoin"
              /\ r.alert_type = "PUMP"
              /\ Duration(r.priority) - (now - r.timestamp) > 0

----------------------------------------------------------------------------
\* C22: a record_alert for a key that was never evaluated, or with a
\* priority outside AlertPriority, is rejected: it leaves the cooldown
\* store, the rate window and the counters as they were.
C22_UnevaluatedCommitRejected ==
    [][IsCommit /\ (evaluated[CallKey(call')].calls = 0
                       \/ call'.priority \notin AlertPriority)
          => alert_optimizer' = alert_optimizer]_vars

----------------------------------------------------------------------------
\* the step is a fetch_coin_data that gave no snapshot
IsFailedFetch == pc = "check" /\ call'.op = "fetch_coin_data"

\* C23: a failed fetch or a failed dispatch for one coin neither ends the
\* monitoring loop nor skips the rest of the cycle: the task goes to the
\* pacing sleep of that coin, from there to the next coin of TRACKED_COINS
\* or, after the last one, to the rest of the cycle, and the loop ends
\* only at its head with monitoring switched off.
C23_FailuresContinue ==
    [][/\ IsFailedFetch \/ (pc = "dispatch" /\ PendingKey \in undelivered')
             => /\ pc' = "pace"
                /\ coin_idx' = coin_idx
                /\ cycle' = cycle
                /\ monitoring_active' = monitoring_active
       /\ pc = "pace" /\ pc' # "idle"
             => IF coin_idx < Len(TRACKED_COINS)
                THEN pc' = "check" /\ coin_idx' = coin_idx + 1
                ELSE pc' = "cleanup"
       /\ pc' = "done" => pc = "head" /\ ~monitoring_active]_vars

\* in the second cycle the fetch for bitcoin fails, after a dispatch for
\* bitcoin failed in the first
C23_Witness ==
    /\ call.op = "fetch_coin_data"
    /\ pc = "pace"
    /\ cycle = 2
    /\ undelivered # {}

----------------------------------------------------------------------------
\* C24: while monitoring stays active and the task is not cancelled, an
\* error raised in a scan cycle does not end monitoring_loop: after the
\* 30-second sleep of the except branch the task starts a new cycle with
\* the first coin.  (Cycles are counted up to MaxCycles.)
C24_ResumesAfterError ==
    \A c \in 0..(MaxCycles - 1) :
        (pc = "backoff" /\ cycle = c)
            ~> (\/ pc = "check" /\ coin_idx = 1 /\ cycle = c + 1
                \/ ~monitoring_active)

\* the first cycle ended in an error at its first coin, and the second
\* cycle has begun 30 seconds later
C24_Witness ==
    /\ pc = "check"
    /\ cycle = 2
    /\ coin_idx = 1
    /\ now = backoff_interval
    /\ monitoring_active

----------------------------------------------------------------------------
\* the timestamps of the rate window
WindowTimes == {alert_optimizer.alerts_sent_minute[i] :
                   i \in 1..Len(alert_optimizer.alerts_sent_minute)}

----------------------------------------------------------------------------
\* the evaluations that were approved so far
Approvals(stats) ==
    stats.total_checks - stats.alerts_blocked_rate_limit
        - stats.alerts_blocked_filters - stats.alerts_blocked_cooldown

\* C26: in the monitoring loop every record_alert follows an approved
\* should_send_alert for the same (coin, alert type) and a send_message
\* that returned success, in this order: no commit before the dispatch is
\* confirmed, none without an approved evaluation before it, and at most
\* one commit for one approved evaluation.
C26_EvaluateDispatchCommit ==
    [][/\ IsCommit
             => /\ call.op = "should_send_alert"
                /\ call.approved
                /\ CallKey(call) = CallKey(call')
                /\ evaluated[CallKey(call')].best = "approved"
                /\ delivered'[CallKey(call')] = <<now', call'.priority>>
                /\ CallKey(call') \notin undelivered'
                /\ telegram_log' # <<>>
                /\ telegram_log'[Len(telegram_log')] = Notification(now', TRUE)
       /\ call.op = "record_alert" => ~IsCommit
       /\ alert_optimizer'.stats.alerts_sent
             <= Approvals(alert_optimizer'.stats)]_vars

\* the second commit of the monitoring task, after as many approvals
C26_Witness ==
    /\ call.op = "record_alert"
    /\ pc = "pace"
    /\ alert_optimizer.stats.alerts_sent = 2
    /\ Approvals(alert_optimizer.stats) = 2

----------------------------------------------------------------------------
----------------------------------------------------------------------------
\* C28: cleanup_old_alerts(max_age_hours) removes exactly the records whose
\* age, now - timestamp, is at least max_age_hours * 3600 seconds, with or
\* without cooldown left, keeps every younger record as it is, and changes
\* neither the rate window nor a counter.
C28_CleanupByAge ==
    [][call'.op = "cleanup_old_alerts"
          => LET old == alert_optimizer.alert_history
                 new == alert_optimizer'.alert_history
             IN  /\ DOMAIN new
                       = {k \in DOMAIN old :
                             now' - old[k].timestamp
                                < call'.max_age_hours * 3600}
                 /\ \A k \in DOMAIN new : new[k] = old[k]
                 /\ alert_optimizer'.alerts_sent_minute
                       = alert_optimizer.alerts_sent_minute
                 /\ alert_optimizer'.stats = alert_optimizer.stats]_vars

\* the default cleanup, a day after the first commit, has removed the
\* record that is exactly 24 hours old, a LOW record with no cooldown left,
\* and kept the one committed half an hour later
C28_Witness ==
    /\ call.op = "cleanup_old_alerts"
    /\ call.max_age_hours = default_max_age_hours
    /\ now = 86400
    /\ \E k \in Keys :
          /\ committed[k] = <<0, "LOW">>
          /\ k \notin DOMAIN alert_optimizer.alert_history
    /\ \E k \in DOMAIN alert_optimizer.alert_history :
          alert_optimizer.alert_history[k].timestamp = 1800

----------------------------------------------------------------------------
\* C29: admission is decided when should_send_alert reads the clock and the
\* timestamp is taken later, when record_alert does; all the same the
\* alerts recorded through check_and_alert never exceed 5 in 60 seconds,
\* across all coins: six consecutive record_alert timestamps span at least
\* 60 seconds.
C29_SixSpanAMinute ==
    /\ \A i \in 1..Len(telegram_log) : telegram_log[i].gated
    /\ Len(telegram_log) = max_alerts_per_minute + 1
          => telegram_log[max_alerts_per_minute + 1].t - telegram_log[1].t
                >= RateWindowSeconds

\* the sixth alert was recorded exactly 60 seconds after the first, its
\* send_message having taken no time
C29_Witness ==
    /\ call.op = "check_and_alert"
    /\ call.recorded
    /\ Len(telegram_log) = max_alerts_per_minute + 1
    /\ telegram_log[max_alerts_per_minute + 1].t - telegram_log[1].t
          = RateWindowSeconds

\* C30: in the running system the rate window never holds more than 5
\* timestamps: it grows only by the one timestamp of a record_alert, and
\* the should_send_alert before it has pruned the window and found fewer
\* than 5.
C30_WindowBounded ==
    [][LET old == alert_optimizer.alerts_sent_minute
           new == alert_optimizer'.alerts_sent_minute
       IN  /\ Len(new) <= max_alerts_per_minute
           /\ Len(new) <= Len(old) + 1
           /\ Len(new) > Len(old) => call'.op = "check_and_alert"
                                        /\ call'.recorded
           /\ call'.op = "check_and_alert" /\ call'.recorded
                 => /\ new # <<>>
                    /\ new[Len(new)] = now'
                    /\ RecentCount(old, now') < max_alerts_per_minute]_vars

\* the window is full, and a further alert has been refused for it
C30_Witness ==
    /\ call.op = "check_and_alert"
    /\ call.asked
    /\ ~call.recorded
    /\ Len(alert_optimizer.alerts_sent_minute) = max_alerts_per_minute
    /\ alert_optimizer.stats.alerts_blocked_rate_limit > 0

----------------------------------------------------------------------------
\* the coins of the sample that check_price_changes has to report: those
\* with a previous price from which the price moved by the coin's threshold
\* or more
Moved(last_prices, current_prices) ==
    {c \in DOMAIN current_prices \cap DOMAIN last_prices :
        /\ last_prices[c] # 0
        /\ Abs(current_prices[c] - last_prices[c]) * 100
              >= Get(alert_thresholds, c, 10) * Abs(last_prices[c])}

\* what check_price_changes does when it returns
PriceChangesReported ==
    LET alerts == call'.alerts
    IN  /\ {alerts[i].coin : i \in 1..Len(alerts)}
              = Moved(crypto_monitor.last_prices, call'.current_prices)
        /\ \A c \in DOMAIN call'.current_prices :
              /\ c \in DOMAIN crypto_monitor'.last_prices
              /\ crypto_monitor'.last_prices[c] = call'.current_prices[c]

\* C39: check_price_changes compares each price with that of the previous
\* call: no alert for the first sample of a coin, an alert for a later one
\* iff it moved by at least the coin's threshold (5 percent for bitcoin and
\* ethereum, 10 for the others), last_prices holds every price of the input
\* afterwards, and the call completes without error for every sequence of
\* samples, a previous price of 0 included.
C39_PriceChanges ==
    [][call'.op = "check_price_changes"
          => ~call'.raised /\ PriceChangesReported]_vars

\* the same without the case of a previous price of 0
C39_UnlessPreviousZero ==
    [][call'.op = "check_price_changes" /\ ~call'.raised
          => PriceChangesReported]_vars

----------------------------------------------------------------------------
\* C31: reset_stats sets the five counters to 0 and leaves the cooldown
\* store and the rate window as they are, so that any should_send_alert
\* after it decides as it would have without the reset, and
\* active_cooldowns is the same.
C31_ResetFrame ==
    [][call'.op = "reset_stats"
          => /\ alert_optimizer'.stats = ZeroStats
             /\ alert_optimizer'.alert_history = alert_optimizer.alert_history
             /\ alert_optimizer'.alerts_sent_minute
                   = alert_optimizer.alerts_sent_minute
             /\ get_stats(alert_optimizer').active_cooldowns
                   = get_stats(alert_optimizer).active_cooldowns
             /\ \A i \in 1..Len(RateOrder), t \in ResetClock :
                   LET s == RateOrder[i] IN
                   t >= now
                      => LET a == analyze_crypto(s[2])
                         IN  should_send_alert(alert_optimizer', s[1],
                                 a.alert_type, s[2], a.priority, t).ret
                               = should_send_alert(alert_optimizer, s[1],
                                     a.alert_type, s[2], a.priority, t).ret]_vars

\* a reset with a full rate window and five records in their cooldowns
C31_Witness ==
    /\ call.op = "reset_stats"
    /\ alert_optimizer.stats = ZeroStats
    /\ Len(alert_optimizer.alerts_sent_minute) = max_alerts_per_minute
    /\ Cardinality(DOMAIN alert_optimizer.alert_history) = 5

\* C32: in the running system, whatever the interleaving of scan steps and
\* reset-stats requests, alerts_sent + alerts_blocked_cooldown
\* + alerts_blocked_filters + alerts_blocked_rate_limit <= total_checks,
\* and success_rate is at most 100 percent.
C32_CountersWithinChecks ==
    LET stats == alert_optimizer.stats
        rate == get_stats(alert_optimizer).success_rate
    IN  /\ stats.alerts_sent + stats.alerts_blocked_cooldown
              + stats.alerts_blocked_filters + stats.alerts_blocked_rate_limit
              <= stats.total_checks
        /\ rate.num <= 100 * rate.den

\* after a reset, which left more alerts in the list than the counter shows,
\* every evaluation counted has been answered
C32_Witness ==
    /\ call.op = "check_and_alert"
    /\ call.asked
    /\ Len(alert_history) > alert_optimizer.stats.alerts_sent
    /\ alert_optimizer.stats.total_checks = MaxChecks
    /\ alert_optimizer.stats.alerts_sent + alert_optimizer.stats.alerts_blocked_cooldown
          + alert_optimizer.stats.alerts_blocked_filters
          + alert_optimizer.stats.alerts_blocked_rate_limit = MaxChecks

----------------------------------------------------------------------------
\* C33: the cleanup the monitoring loop runs, with the default age of 24
\* hours, never removes a record whose cooldown is still active, the longest
\* cooldown (7200 s) being shorter than the age limit (86400 s): every
\* should_send_alert decides the same whether or not the cleanup has run.
C33_CleanupKeepsCooldowns ==
    [][(call'.op = "cleanup_old_alerts"
           /\ call'.max_age_hours = default_max_age_hours)
          => LET old == alert_optimizer.alert_history
                 new == alert_optimizer'.alert_history
             IN  /\ \A p \in AlertPriority :
                       cooldown_config[p] < default_max_age_hours * 3600
                 /\ \A k \in DOMAIN old \ DOMAIN new :
                       ~Suppressed(old, k, now')
                 /\ \A s \in LongSubjects, t \in AdminClock :
                       t >= now'
                          => should_send_alert(alert_optimizer', s[1], s[2],
                                               GoodSnapshot, None, t).ret
                               = should_send_alert(alert_optimizer, s[1], s[2],
                                                   GoodSnapshot, None, t).ret]_vars

\* the default cleanup has removed the two records of the store, a day
\* after they were committed
C33_Witness ==
    /\ call.op = "cleanup_old_alerts"
    /\ call.max_age_hours = default_max_age_hours
    /\ now = 86400
    /\ DOMAIN alert_optimizer.alert_history = {}
    /\ Cardinality({k \in Keys : committed[k] # <<>> /\ committed[k][1] = 0}) = 2

----------------------------------------------------------------------------
\* C35: in a cycle of the active, uncancelled loop every coin of
\* TRACKED_COINS is checked, also when the check of an earlier coin raises:
\* the task is back at its while statement only after the last coin of the
\* cycle was checked.
C35_CycleChecksEveryCoin ==
    [][(pc \in {"check", "dispatch", "pace", "cleanup", "whale", "whale_alert",
                "sleep", "backoff"}
           /\ pc' = "head")
          => coin_idx = Len(TRACKED_COINS)]_vars

\* what the code does: the cycle ends early only through the except branch,
\* and then at the coin whose check raised
C35_ShortCycleOnlyAfterRaise ==
    [][(pc' = "head" /\ pc # "enter" /\ coin_idx < Len(TRACKED_COINS))
          => pc = "backoff"]_vars

----------------------------------------------------------------------------
\* C36: while no reset-stats request has occurred, alert_history holds one
\* entry per committed alert, its length being alerts_sent, also when the
\* task is cancelled while check_and_alert is suspended in db.save_alert
\* (the state in which the task stands inside db.save_alert is left aside)
C36_OneEntryPerCommit ==
    pc # "save_alert"
       => Len(alert_history) = alert_optimizer.stats.alerts_sent

\* what the code does: the two numbers move apart only around db.save_alert
C36_ApartOnlyAroundSave ==
    [][(Len(alert_history') - alert_optimizer'.stats.alerts_sent
           # Len(alert_history) - alert_optimizer.stats.alerts_sent)
          => (pc = "save_alert" \/ pc' = "save_alert")]_vars

\* an entry is appended after db.save_alert has returned
C36_SavedAndAppended ==
    /\ call.op = "save_alert"
    /\ Len(alert_history) = 1
    /\ alert_optimizer.stats.alerts_sent = 1

----------------------------------------------------------------------------
\* what the scan steps of a monitoring loop change: the optimizer, the
\* evaluations and commits, the notifications and the list of alerts
scan_vars == <<alert_optimizer, evaluated, committed, delivered, undelivered,
               telegram_log, alert_history>>

\* C34: at most one monitoring loop performs scan steps at any time.  A
\* start request while monitoring is active creates no task; a task is
\* created only when no uncancelled task exists; whatever the order of
\* start and stop requests, a start before the cancelled task has run
\* included, the last run of a cancelled task evaluates, dispatches and
\* commits nothing and leaves the task created since alone; a stop request
\* while monitoring is not active answers not_running and changes nothing.
C34_SingleLoop ==
    [][/\ (call'.op = "start_monitoring" /\ monitoring_active)
             => UNCHANGED <<now, alert_optimizer, evaluated, committed,
                            loop_vars, aux_vars>>
       /\ starts' # starts
             => /\ starts' = starts + 1
                /\ pc \in {"idle", "done"}
                /\ call'.op = "start_monitoring"
       /\ (call'.op = "stop_monitoring" /\ ~monitoring_active)
             => /\ call'.status = "not_running"
                /\ UNCHANGED <<now, alert_optimizer, evaluated, committed,
                               loop_vars, aux_vars>>
       /\ (call'.op = "stop_monitoring" /\ monitoring_active)
             => /\ call'.status = "stopped"
                /\ pc' = "idle"
                /\ cancelled_tasks' = Append(cancelled_tasks, pc)
                /\ UNCHANGED scan_vars
       /\ call'.op = "cancelled"
             => /\ Len(cancelled_tasks') = Len(cancelled_tasks) - 1
                /\ UNCHANGED <<scan_vars, now, pc, monitoring_active, coin_idx,
                               cycle, starts, last_cleanup, whale_txs>>
       /\ ~UNCHANGED scan_vars
             => /\ monitoring_active
                /\ pc \in {"check", "dispatch", "save_alert", "cleanup"}
                /\ call'.op \notin {"start_monitoring", "cancelled"}]_vars

\* a start request was served while the stop request before it awaited the
\* cancelled task; the cancelled task has since run for the last time and
\* the task created by the start request is scanning
C34_Witness ==
    /\ call.op = "cancelled"
    /\ call.at = "save_alert"
    /\ cancelled_tasks = <<>>
    /\ monitoring_active
    /\ starts = 2
    /\ pc = "check"
    /\ alert_optimizer.stats.alerts_sent = 1

----------------------------------------------------------------------------
\* C38: when the whale_tracker module cannot supply WhaleAlertAPI and
\* WhaleTracker, the import of main.py ends without an error, with
\* WHALE_ENABLED = False and whale_tracker = None, and the application is
\* ready to start the monitoring loop, which then runs without the whale
\* step.
C38_ImportFallback ==
    [][/\ (call'.op = "import" /\ call'.whale_module # "complete")
             => /\ call'.error = "none"
                /\ call'.WHALE_ENABLED = FALSE
                /\ whale_tracker' = FALSE
                /\ pc' = "idle"
       /\ (pc = "whale" /\ ~whale_tracker) => whale_txs' = 0]_vars

\* what the code does: the import ends without an error exactly when the
\* module supplies both classes, and a failed import is the end
C38_StartsOnlyWithTracker ==
    /\ pc \notin NotImported => whale_tracker
    /\ pc = "import_error" => ~monitoring_active /\ starts = 0

----------------------------------------------------------------------------
\* C37: the AlertOptimizer of alert_optimizer.py and the AlertOptimizer of
\* main.py are equivalent: given the same should_send_alert, record_alert,
\* cleanup_old_alerts, reset_stats and get_priority calls at the same
\* times, they hold the same counters, cooldown records and rate window
\* after every call and return the same decisions and priorities (the
\* texts of the reasons are not compared).
C37_Equivalent ==
    /\ ao_optimizer.stats = alert_optimizer.stats
    /\ ao_optimizer.alert_history = alert_optimizer.alert_history
    /\ ao_optimizer.alerts_sent_minute = alert_optimizer.alerts_sent_minute
    /\ call.op = "twin_should_send_alert" => call.ao_approved = call.approved
    /\ call.op = "twin_get_priority" => call.ao_ret = call.ret
    /\ ao_cooldown_config = cooldown_config

\* both instances have refused a call for the rate limit, after refusing
\* one for a filter or a cooldown, and hold a cooldown record
C37_Witness ==
    /\ call.op = "twin_should_send_alert"
    /\ ~call.ao_approved
    /\ call.reason = RateLimitText
    /\ ao_optimizer.stats.alerts_blocked_rate_limit = 1
    /\ ao_optimizer.stats.alerts_blocked_filters
          + ao_optimizer.stats.alerts_blocked_cooldown = 1
    /\ Len(ao_optimizer.alerts_sent_minute) = max_alerts_per_minute
    /\ DOMAIN ao_optimizer.alert_history # {}

====
